---------------------------- MODULE Spec2Model ----------------------------
(***************************************************************************)
(* Run-cycle engine of the Polymarket micro market-making worker.          *)
(*                                                                         *)
(* Two deployed variants of the worker are modelled side by side:          *)
(*   "v5"  scalper-mm-v5-maker        (src/unnamed/part_005)               *)
(*   "v6"  scalper-mm-v6-seed-target  (src/unnamed/part_006, lines 1-945)  *)
(* A running worker is one of them; Init draws the variant.                *)
(*                                                                         *)
(* Units.  Prices and average costs are integers in thousandths of a       *)
(* dollar (0.01 = 10, 0.99 = 990).  Sizes are whole shares.  Depths and    *)
(* notionals are price * size, i.e. thousandths of a dollar.  Dollar       *)
(* thresholds of CONFIG are kept as in the source and scaled by PriceScale *)
(* where they are compared.  Arithmetic is exact: the binary floating      *)
(* point error of Math.round(p / t) * t is not modelled.                   *)
(***************************************************************************)
EXTENDS Integers, Sequences, FiniteSets, TLC

VARIABLES
    variant,       \* "v5" | "v6": which worker is deployed
    seedEnabled,   \* SEED_ENABLED (v6 environment toggle)
    takeProfitBps, \* CONFIG.TAKE_PROFIT_BPS (environment, default 100)
    clock,         \* Date.now(), milliseconds
    started,       \* number of runCycle() calls made so far (runCount)
    cyc,           \* per runCycle() invocation: its position and locals
    clientState,   \* clobClient / clientInitPromise: "none" | "ready" | "failed"
    orders,        \* rows of pm_orders
    positions,     \* rows of pm_positions, by token
    runsTable,     \* rows of pm_runs
    nextOrderId,   \* next order id the venue hands out
    steps,         \* steps taken so far (bounds the length of a behaviour)
    plan           \* planner harness: the token planned last (SpecPlan only)

vars == <<variant, seedEnabled, takeProfitBps, clock, started, cyc, clientState,
          orders, positions, runsTable, nextOrderId, steps, plan>>

---------------------------------------------------------------------------
(* Bounds of the model *)

\* runCycle() invocations per behaviour: the immediate one plus timer ticks
MaxCycles == 2

\* steps per behaviour
MaxSteps == 8

---------------------------------------------------------------------------
(* Program constants (defaults of the environment variables) *)

\* thousandths per dollar (the unit of the model, see above)
PriceScale == 10 * 100

RUNNER_INTERVAL_MS == 15000
BOOK_STALE_MS == 5000
STALE_MS == 45000
MAX_ORDERS_PER_SIDE == 1
MAX_OPEN_ORDERS_PER_TOKEN == 2
MIN_BID == 20
MAX_ASK == 980
MAX_SPREAD_BPS == 3500
MIN_ASK_DEPTH_USD == 10
MIN_BID_DEPTH_USD == 10
MIN_TOP_SUM_DEPTH_USD == 25
FOK_MIN_DEPTH_USD == 15
MAKER_TICK_IMPROVE == 1
MAKER_MAX_IMPROVE_BPS == 50
MIN_EDGE_BPS == 80
MAX_POSITION_USD_PER_TOKEN == 25
MAX_TOTAL_POSITION_USD == 100
TAKE_PROFIT_BPS_DEFAULT == 100
TAKE_PROFIT_USD == 20
MIN_PROFIT_USD == 50
CLOSEOUT_SECONDS == 60
SEED_FAIR_PRICE == 500
SEED_HALF_SPREAD_BPS == 200
ORDER_USD_PER_TRADE_V5 == 3
ORDER_USD_PER_TRADE_V6 == 2
MIN_ORDER_SIZE_V5 == 3
MIN_ORDER_SIZE_V6 == 1
ClampLo == 10
ClampHi == 990
DefaultTick == 10

---------------------------------------------------------------------------
(* Numeric utilities *)

Max(a, b) == IF a >= b THEN a ELSE b
Min(a, b) == IF a <= b THEN a ELSE b

\* Math.round(n / d) for d > 0: the nearest integer, halves towards +infinity
RoundDiv(n, d) == (2 * n + d) \div (2 * d)

\* roundToTick(price, tick) for price = num / den (den > 0), tick in thousandths:
\* Math.round(price / t) * t with t = Number(tick) || 0.01
RoundToTickQ(num, den, tick) ==
    LET t == IF tick = 0 THEN DefaultTick ELSE tick
    IN  RoundDiv(num, den * t) * t

roundToTick(price, tick) == RoundToTickQ(price, 1, tick)

\* clamp(price, min, max) = Math.max(min, Math.min(max, price))
clamp(price, lo, hi) == Max(lo, Min(hi, price))

---------------------------------------------------------------------------
(* Order book snapshot, classification and the eligibility gate *)

bidDepthUsd(book) == book.bidSize * book.bestBid
askDepthUsd(book) == book.askSize * book.bestAsk
topSumDepthUsd(book) == bidDepthUsd(book) + askDepthUsd(book)

\* spreadBpsMid: Math.round((spread / mid) * 10000), 99999 when mid <= 0
spreadBpsMid(bestBid, bestAsk) ==
    IF bestBid + bestAsk > 0
    THEN RoundDiv(20000 * (bestAsk - bestBid), bestBid + bestAsk)
    ELSE 99999

\* A faulty classification that tests the depth before the prices; C32 must
\* tell it from the real one
classifyBookDepthFirst(book) ==
    LET empty == \/ (book.bestBid <= ClampLo /\ book.bestAsk >= ClampHi)
                 \/ book.bestBid <= 0
                 \/ book.bestAsk >= PriceScale
        thin  == \/ topSumDepthUsd(book) < MIN_TOP_SUM_DEPTH_USD * PriceScale
                 \/ bidDepthUsd(book) < 1 * PriceScale
                 \/ askDepthUsd(book) < 1 * PriceScale
    IN  IF thin THEN "THIN" ELSE IF empty THEN "EMPTY" ELSE "REAL"

classifyBook(book) ==
    LET empty == \/ (book.bestBid <= ClampLo /\ book.bestAsk >= ClampHi)
                 \/ book.bestBid <= 0
                 \/ book.bestAsk >= PriceScale
        thin  == /\ ~empty
                 /\ \/ topSumDepthUsd(book) < MIN_TOP_SUM_DEPTH_USD * PriceScale
                    \/ bidDepthUsd(book) < 1 * PriceScale
                    \/ askDepthUsd(book) < 1 * PriceScale
    IN  IF empty THEN "EMPTY" ELSE IF thin THEN "THIN" ELSE "REAL"

\* the thresholds the gate reads from CONFIG when it is called
GateThresholds ==
    [MIN_BID |-> MIN_BID, MAX_ASK |-> MAX_ASK, MAX_SPREAD_BPS |-> MAX_SPREAD_BPS,
     MIN_TOP_SUM_DEPTH_USD |-> MIN_TOP_SUM_DEPTH_USD,
     FOK_MIN_DEPTH_USD |-> FOK_MIN_DEPTH_USD,
     MIN_ASK_DEPTH_USD |-> MIN_ASK_DEPTH_USD,
     MIN_BID_DEPTH_USD |-> MIN_BID_DEPTH_USD]

\* A faulty MAX_ASK comparison with the sign turned round; C19 must tell it
\* from the real one
BelowMaxAsk(bestAsk, maxAsk) == bestAsk < maxAsk

\* bestAsk > CONFIG.MAX_ASK
AboveMaxAsk(bestAsk, maxAsk) == bestAsk > maxAsk

\* A faulty gate that tests the spread before the price bounds; C18 must tell
\* it from the real one
GateReasonSpreadFirst(th, book, side, mode) ==
    LET bestBid == book.bestBid
        bestAsk == book.bestAsk
    IN  IF bestBid <= ClampLo /\ bestAsk >= ClampHi THEN "DEAD_BOOK"
        ELSE IF bestAsk = 0 \/ bestAsk >= PriceScale THEN "NO_ASK"
        ELSE IF bestBid = 0 \/ bestBid <= 0 THEN "NO_BID"
        ELSE IF spreadBpsMid(bestBid, bestAsk) > th.MAX_SPREAD_BPS THEN "SPREAD"
        ELSE IF bestBid < th.MIN_BID THEN "MIN_BID"
        ELSE IF AboveMaxAsk(bestAsk, th.MAX_ASK) THEN "MAX_ASK"
        ELSE IF topSumDepthUsd(book) < th.MIN_TOP_SUM_DEPTH_USD * PriceScale THEN "SUM_DEPTH"
        ELSE IF mode = "FOK" /\ bidDepthUsd(book) < th.FOK_MIN_DEPTH_USD * PriceScale THEN "FOK_BID_DEPTH"
        ELSE IF mode = "FOK" /\ askDepthUsd(book) < th.FOK_MIN_DEPTH_USD * PriceScale THEN "FOK_ASK_DEPTH"
        ELSE IF side = "BUY" /\ askDepthUsd(book) < th.MIN_ASK_DEPTH_USD * PriceScale THEN "ASK_DEPTH"
        ELSE IF side # "BUY" /\ bidDepthUsd(book) < th.MIN_BID_DEPTH_USD * PriceScale THEN "BID_DEPTH"
        ELSE "OK"

\* checkEligibility (v5) / checkEligibilityNonSeed (v6) under the thresholds
\* th: the reason of the first failing rule, "OK" when none fails
GateReasonWith(th, book, side, mode) ==
    LET bestBid == book.bestBid
        bestAsk == book.bestAsk
    IN  IF bestBid <= ClampLo /\ bestAsk >= ClampHi THEN "DEAD_BOOK"
        ELSE IF bestAsk = 0 \/ bestAsk >= PriceScale THEN "NO_ASK"
        ELSE IF bestBid = 0 \/ bestBid <= 0 THEN "NO_BID"
        ELSE IF bestBid < th.MIN_BID THEN "MIN_BID"
        ELSE IF AboveMaxAsk(bestAsk, th.MAX_ASK) THEN "MAX_ASK"
        ELSE IF spreadBpsMid(bestBid, bestAsk) > th.MAX_SPREAD_BPS THEN "SPREAD"
        ELSE IF topSumDepthUsd(book) < th.MIN_TOP_SUM_DEPTH_USD * PriceScale THEN "SUM_DEPTH"
        ELSE IF mode = "FOK" /\ bidDepthUsd(book) < th.FOK_MIN_DEPTH_USD * PriceScale THEN "FOK_BID_DEPTH"
        ELSE IF mode = "FOK" /\ askDepthUsd(book) < th.FOK_MIN_DEPTH_USD * PriceScale THEN "FOK_ASK_DEPTH"
        ELSE IF side = "BUY" /\ askDepthUsd(book) < th.MIN_ASK_DEPTH_USD * PriceScale THEN "ASK_DEPTH"
        ELSE IF side # "BUY" /\ bidDepthUsd(book) < th.MIN_BID_DEPTH_USD * PriceScale THEN "BID_DEPTH"
        ELSE "OK"

\* the gate as the worker calls it, under CONFIG
GateReason(book, side, mode) == GateReasonWith(GateThresholds, book, side, mode)

checkEligibility(book, side, mode) ==
    LET r == GateReason(book, side, mode)
    IN  [eligible |-> r = "OK", reason |-> r]

---------------------------------------------------------------------------
(* Positions and the profit check *)

NoPos == [exists |-> FALSE, shares |-> 0, avgCost |-> 0]
PosRow(s, a) == [exists |-> TRUE, shares |-> s, avgCost |-> a]

\* A faulty checkProfitExit that forgets the total-profit threshold; C10 must
\* tell it from the real one
checkProfitExitNoTotal(book, avgCost, shares) ==
    LET profit2       == book.bestBid + book.bestAsk - 2 * avgCost
        profitBps     == IF avgCost > 0 THEN RoundDiv(profit2 * 10000, 2 * avgCost) ELSE 0
        meetsBps      == profitBps >= takeProfitBps
        meetsPerShare == profit2 >= 2 * TAKE_PROFIT_USD
        canFokExit    == /\ bidDepthUsd(book) >= FOK_MIN_DEPTH_USD * PriceScale
                         /\ book.bestBid >= avgCost + TAKE_PROFIT_USD
    IN  [profit2 |-> profit2, profitBps |-> profitBps,
         meetsBps |-> meetsBps, meetsPerShare |-> meetsPerShare,
         meetsTotal |-> TRUE, canFokExit |-> canFokExit,
         shouldExit |-> (meetsBps \/ meetsPerShare) /\ canFokExit]

\* checkProfitExit(book, avgCost, shares); profit2 is twice profitPerShare
checkProfitExit(book, avgCost, shares) ==
    LET profit2       == book.bestBid + book.bestAsk - 2 * avgCost
        profitBps     == IF avgCost > 0 THEN RoundDiv(profit2 * 10000, 2 * avgCost) ELSE 0
        meetsBps      == profitBps >= takeProfitBps
        meetsPerShare == profit2 >= 2 * TAKE_PROFIT_USD
        meetsTotal    == profit2 * shares >= 2 * MIN_PROFIT_USD
        canFokExit    == /\ bidDepthUsd(book) >= FOK_MIN_DEPTH_USD * PriceScale
                         /\ book.bestBid >= avgCost + TAKE_PROFIT_USD
    IN  [profit2 |-> profit2, profitBps |-> profitBps,
         meetsBps |-> meetsBps, meetsPerShare |-> meetsPerShare,
         meetsTotal |-> meetsTotal, canFokExit |-> canFokExit,
         shouldExit |-> (meetsBps \/ meetsPerShare) /\ meetsTotal /\ canFokExit]

---------------------------------------------------------------------------
(* Placement: what one placeOrder() + insertOrder() pair does *)

\* What the venue call and the insert that follows it can do:
\*   "id"          createAndPostOrder returned an order id, row inserted
\*   "noid"        it returned no order id, row inserted as FAILED
\*   "throw"       createAndPostOrder threw
\*   "insertThrow" an order id was returned and insertOrder threw
Resp == {"id", "noid", "throw", "insertThrow"}
RespIdx == 1 .. 3

Aborts(r) == r \in {"throw", "insertThrow"}
HasId(r)  == r \in {"id", "insertThrow"}

\* One planned placement: the arguments of placeOrder() and the tag of the
\* client_order_id of the row inserted after it
Sub(side, otype, price, size, tick, tag, resp) ==
    [side |-> side, otype |-> otype, price |-> price, size |-> size,
     tick |-> tick, tag |-> tag, resp |-> resp]

\* placeOrder(): the price handed to createAndPostOrder
PlaceOrderPrice(price) == clamp(price, ClampLo, ClampHi)

\* status of the inserted row: FOK rows are written FILLED when an id came back
RowStatus(otype, resp) ==
    IF resp = "id" THEN (IF otype = "FOK" THEN "FILLED" ELSE "ACTIVE") ELSE "FAILED"

\* The outcome of planning one token
PlanResult(subs, skips, posWrite, threw) ==
    [subs |-> subs, skips |-> skips, posWrite |-> posWrite, threw |-> threw]

Skip(reason) == PlanResult(<<>>, <<reason>>, "none", FALSE)

---------------------------------------------------------------------------
(* v5 planner: runCycle of part_005, from the sell path to the buy path *)

\* A faulty exit price taken from the ask; C24 must tell it from the real one
ExitPriceAtAsk(book) == clamp(roundToTick(book.bestAsk, book.tickSize), ClampLo, ClampHi)

\* px of the fill-or-kill exits: the best bid, rounded and clamped
ExitPrice(book) == clamp(roundToTick(book.bestBid, book.tickSize), ClampLo, ClampHi)

\* A faulty maker sell target that forgets the floor; C29 must tell it from
\* the real one
MakerSellTargetNoFloor(book, avgCost) ==
    LET improveNum == Min(MAKER_TICK_IMPROVE * book.tickSize * 10000,
                          book.bestAsk * MAKER_MAX_IMPROVE_BPS)
    IN  clamp(RoundToTickQ(book.bestAsk * 10000 - improveNum, 10000, book.tickSize),
              ClampLo, ClampHi)

\* maker sell target: rounded, then floored at avgCost + TAKE_PROFIT_USD, then clamped
MakerSellTarget(book, avgCost) ==
    LET improveNum == Min(MAKER_TICK_IMPROVE * book.tickSize * 10000,
                          book.bestAsk * MAKER_MAX_IMPROVE_BPS)
        rounded    == RoundToTickQ(book.bestAsk * 10000 - improveNum, 10000, book.tickSize)
    IN  clamp(Max(rounded, avgCost + TAKE_PROFIT_USD), ClampLo, ClampHi)

\* maker buy target: best bid improved, rounded, clamped
MakerBuyTarget(book) ==
    LET improveNum == Min(MAKER_TICK_IMPROVE * book.tickSize * 10000,
                          book.bestBid * MAKER_MAX_IMPROVE_BPS)
    IN  clamp(RoundToTickQ(book.bestBid * 10000 + improveNum, 10000, book.tickSize),
              ClampLo, ClampHi)

SizeFor(usdMilli, price, minSize) == Max(minSize, usdMilli \div price)

\* the maker sell that ends the sell path
V5MakerSell(book, pos, nSells, r, before) ==
    LET g      == GateReason(book, "SELL", "MAKER")
        target == MakerSellTarget(book, pos.avgCost)
        size   == Min(pos.shares,
                      SizeFor(ORDER_USD_PER_TRADE_V5 * PriceScale, target, MIN_ORDER_SIZE_V5))
    IN  IF g # "OK" THEN PlanResult(before, <<g>>, "none", FALSE)
        ELSE IF nSells >= MAX_OPEN_ORDERS_PER_TOKEN THEN PlanResult(before, <<>>, "none", FALSE)
        ELSE PlanResult(Append(before, Sub("SELL", "GTC", target, size, book.tickSize, "SELL", r)),
                        <<>>, "none", Aborts(r))

\* the profit exit, then the maker sell when no exit order id came back
V5ProfitThenSell(book, pos, nSells, resp, before) ==
    LET k      == Len(before)
        profit == checkProfitExit(book, pos.avgCost, pos.shares)
        fokOk  == GateReason(book, "SELL", "FOK") = "OK"
        sub    == Sub("SELL", "FOK", ExitPrice(book), pos.shares, book.tickSize, "PROFIT", resp[k + 1])
    IN  IF profit.shouldExit /\ fokOk
        THEN IF Aborts(resp[k + 1]) THEN PlanResult(Append(before, sub), <<>>, "none", TRUE)
             ELSE IF resp[k + 1] = "id" THEN PlanResult(Append(before, sub), <<>>, "none", FALSE)
             ELSE V5MakerSell(book, pos, nSells, resp[k + 2], Append(before, sub))
        ELSE V5MakerSell(book, pos, nSells, resp[k + 1], before)

V5SellPath(book, pos, nSells, closeout, resp) ==
    LET fokOk == GateReason(book, "SELL", "FOK") = "OK"
        sub   == Sub("SELL", "FOK", ExitPrice(book), pos.shares, book.tickSize, "CLOSE", resp[1])
    IN  IF closeout /\ fokOk
        THEN IF Aborts(resp[1]) THEN PlanResult(<<sub>>, <<>>, "none", TRUE)
             ELSE IF resp[1] = "id" THEN PlanResult(<<sub>>, <<>>, "zero", FALSE)
             ELSE V5ProfitThenSell(book, pos, nSells, resp, <<sub>>)
        ELSE V5ProfitThenSell(book, pos, nSells, resp, <<>>)

V5BuyPath(book, pos, nBuys, closeout, totalUsd, resp) ==
    LET g           == GateReason(book, "BUY", "MAKER")
        positionUsd == pos.shares * pos.avgCost
        target      == MakerBuyTarget(book)
        potential   == (book.bestAsk - MAKER_TICK_IMPROVE * book.tickSize) - target
        remaining   == Min(MAX_POSITION_USD_PER_TOKEN * PriceScale - positionUsd,
                           MAX_TOTAL_POSITION_USD * PriceScale - totalUsd)
        orderUsd    == Min(ORDER_USD_PER_TRADE_V5 * PriceScale, remaining)
        size        == SizeFor(orderUsd, target, MIN_ORDER_SIZE_V5)
    IN  IF g # "OK" THEN Skip(g)
        ELSE IF positionUsd >= MAX_POSITION_USD_PER_TOKEN * PriceScale THEN Skip("position_full")
        ELSE IF totalUsd >= MAX_TOTAL_POSITION_USD * PriceScale THEN Skip("total_position_full")
        ELSE IF nBuys >= MAX_OPEN_ORDERS_PER_TOKEN THEN Skip("max_orders")
        ELSE IF closeout THEN Skip("closeout")
        ELSE IF spreadBpsMid(book.bestBid, book.bestAsk) < MIN_EDGE_BPS THEN Skip("no_edge")
        ELSE IF potential < TAKE_PROFIT_USD THEN Skip("no_profit_edge")
        ELSE PlanResult(<<Sub("BUY", "GTC", target, size, book.tickSize, "BUY", resp[1])>>, <<>>,
                        IF resp[1] = "id" /\ ~pos.exists THEN "ensure" ELSE "none",
                        Aborts(resp[1]))

PlanV5(book, pos, nBuys, nSells, closeout, totalUsd, resp) ==
    IF pos.shares > 0 /\ pos.avgCost > 0
    THEN V5SellPath(book, pos, nSells, closeout, resp)
    ELSE V5BuyPath(book, pos, nBuys, closeout, totalUsd, resp)

---------------------------------------------------------------------------
(* v6 planner: runCycle of part_006, from the risk caps to the maker buy *)

\* seed quotes around clamp(SEED_FAIR_PRICE, 0.05, 0.95); half-spread
\* Math.max(tick, fair * SEED_HALF_SPREAD_BPS / 10000), kept over 10000
SeedFair == clamp(SEED_FAIR_PRICE, 5 * ClampLo, PriceScale - 5 * ClampLo)
\* A faulty half-spread taken as a fraction of 1 instead of the fair price;
\* C23 must tell it from the real one
SeedHalfNumOfOne(tick) == Max(tick * 10000, PriceScale * SEED_HALF_SPREAD_BPS)

SeedHalfNum(tick) == Max(tick * 10000, SeedFair * SEED_HALF_SPREAD_BPS)
SeedBidPx(tick) ==
    clamp(RoundToTickQ(SeedFair * 10000 - SeedHalfNum(tick), 10000, tick), ClampLo, ClampHi)
SeedAskPx(tick) ==
    clamp(RoundToTickQ(SeedFair * 10000 + SeedHalfNum(tick), 10000, tick), ClampLo, ClampHi)

\* A faulty seed pass that ignores the per-side cap; C12 must tell it from
\* the real one
V6SeedNoCap(book, pos, nBuys, nSells, resp) ==
    LET tick    == book.tickSize
        bidPx   == SeedBidPx(tick)
        askPx   == SeedAskPx(tick)
        bidSize == SizeFor(ORDER_USD_PER_TRADE_V6 * PriceScale, bidPx, MIN_ORDER_SIZE_V6)
        askSize == SizeFor(ORDER_USD_PER_TRADE_V6 * PriceScale, askPx, MIN_ORDER_SIZE_V6)
        bid     == Sub("BUY", "GTC", bidPx, bidSize, tick, "SEED_BID", resp[1])
        ask     == Sub("SELL", "GTC", askPx, askSize, tick, "SEED_ASK", resp[2])
        ensure  == IF pos.exists THEN "none" ELSE "ensure"
    IN  IF Aborts(bid.resp) THEN PlanResult(<<bid>>, <<>>, "none", TRUE)
        ELSE IF Aborts(ask.resp) THEN PlanResult(<<bid, ask>>, <<>>, "none", TRUE)
        ELSE PlanResult(<<bid, ask>>, <<>>, ensure, FALSE)

V6Seed(book, pos, nBuys, nSells, resp) ==
    LET tick    == book.tickSize
        bidPx   == SeedBidPx(tick)
        askPx   == SeedAskPx(tick)
        bidSize == SizeFor(ORDER_USD_PER_TRADE_V6 * PriceScale, bidPx, MIN_ORDER_SIZE_V6)
        askSize == SizeFor(ORDER_USD_PER_TRADE_V6 * PriceScale, askPx, MIN_ORDER_SIZE_V6)
        needBid == nBuys < MAX_ORDERS_PER_SIDE
        needAsk == nSells < MAX_ORDERS_PER_SIDE
        bid     == Sub("BUY", "GTC", bidPx, bidSize, tick, "SEED_BID", resp[1])
        bids    == IF needBid THEN <<bid>> ELSE <<>>
        ask     == Sub("SELL", "GTC", askPx, askSize, tick, "SEED_ASK", resp[Len(bids) + 1])
        ensure  == IF pos.exists THEN "none" ELSE "ensure"
    IN  IF ~needBid /\ ~needAsk THEN Skip("seed_max_orders")
        ELSE IF needBid /\ Aborts(bid.resp) THEN PlanResult(bids, <<>>, "none", TRUE)
        ELSE IF ~needAsk THEN PlanResult(bids, <<>>, ensure, FALSE)
        ELSE IF Aborts(ask.resp) THEN PlanResult(Append(bids, ask), <<>>, "none", TRUE)
        ELSE PlanResult(Append(bids, ask), <<>>, ensure, FALSE)

\* A faulty maker buy that ignores the open-order cap; C13 must tell it from
\* the real one
V6NonSeedNoCap(book, nBuys, resp) ==
    LET g      == GateReason(book, "BUY", "MAKER")
        target == MakerBuyTarget(book)
        size   == SizeFor(ORDER_USD_PER_TRADE_V6 * PriceScale, target, MIN_ORDER_SIZE_V6)
    IN  IF g # "OK" THEN Skip(g)
        ELSE PlanResult(<<Sub("BUY", "GTC", target, size, book.tickSize, "BUY", resp[1])>>,
                        <<>>, "none", Aborts(resp[1]))

V6NonSeed(book, nBuys, resp) ==
    LET g      == GateReason(book, "BUY", "MAKER")
        target == MakerBuyTarget(book)
        size   == SizeFor(ORDER_USD_PER_TRADE_V6 * PriceScale, target, MIN_ORDER_SIZE_V6)
    IN  IF g # "OK" THEN Skip(g)
        ELSE IF nBuys >= MAX_OPEN_ORDERS_PER_TOKEN THEN Skip("max_orders")
        ELSE PlanResult(<<Sub("BUY", "GTC", target, size, book.tickSize, "BUY", resp[1])>>,
                        <<>>, "none", Aborts(resp[1]))

\* A faulty planner that seeds a token only until its position row exists;
\* C20 must tell it from the real one
PlanV6SeedOnce(book, pos, nBuys, nSells, closeout, totalUsd, resp) ==
    LET positionUsd == pos.shares * pos.avgCost
        state       == classifyBook(book)
    IN  IF positionUsd >= MAX_POSITION_USD_PER_TOKEN * PriceScale THEN Skip("position_full")
        ELSE IF totalUsd >= MAX_TOTAL_POSITION_USD * PriceScale THEN Skip("total_position_full")
        ELSE IF closeout THEN Skip("closeout")
        ELSE IF seedEnabled /\ state \in {"EMPTY", "THIN"}
             THEN (IF pos.exists THEN Skip("seed_max_orders")
                   ELSE V6Seed(book, pos, nBuys, nSells, resp))
        ELSE V6NonSeed(book, nBuys, resp)

PlanV6(book, pos, nBuys, nSells, closeout, totalUsd, resp) ==
    LET positionUsd == pos.shares * pos.avgCost
        state       == classifyBook(book)
    IN  IF positionUsd >= MAX_POSITION_USD_PER_TOKEN * PriceScale THEN Skip("position_full")
        ELSE IF totalUsd >= MAX_TOTAL_POSITION_USD * PriceScale THEN Skip("total_position_full")
        ELSE IF closeout THEN Skip("closeout")
        ELSE IF seedEnabled /\ state \in {"EMPTY", "THIN"}
             THEN V6Seed(book, pos, nBuys, nSells, resp)
        ELSE V6NonSeed(book, nBuys, resp)

\* what one token's planning step does, by variant
PlanToken(book, pos, nBuys, nSells, closeout, totalUsd, resp) ==
    IF variant = "v5"
    THEN PlanV5(book, pos, nBuys, nSells, closeout, totalUsd, resp)
    ELSE PlanV6(book, pos, nBuys, nSells, closeout, totalUsd, resp)

---------------------------------------------------------------------------
(* The world around one worker *)

Assets == {"BTC"}
OutcomeSeq == <<"YES", "NO">>
Tokens == Assets \X {"YES", "NO"}

\* what getEnabledAssets() can return
AssetLists == {<<>>, <<"BTC">>}

\* seconds to expiry of the market a resolution returns
SecsLeftSet == {45, 300}

Book(bid, ask, bsz, asz, tick) ==
    [bestBid |-> bid, bestAsk |-> ask, bidSize |-> bsz, askSize |-> asz, tickSize |-> tick]

\* snapshots fetchOrderBook() can return: a dead book and a real one
DeadBook == Book(10, 990, 100, 100, DefaultTick)
RealBook == Book(550, 590, 100, 100, DefaultTick)
Books == {DeadBook, RealBook}

\* rows of pm_positions a cycle can find for the first token (fills are
\* written to the table from outside the worker)
InitPositions == {NoPos, PosRow(10, 400)}

\* a row of pm_orders; run 0 marks a row found at startup.  oid 0 is a null
\* order_id.  nowMs is the cycle's nowMs that ends the client_order_id.
OrderRow(run, tok, side, otype, price, size, status, oid, tag, nowMs, placedAt) ==
    [run |-> run, token |-> tok, side |-> side, otype |-> otype, price |-> price,
     size |-> size, status |-> status, oid |-> oid, tag |-> tag, nowMs |-> nowMs,
     placedAt |-> placedAt]

\* client_order_id of a row: `${asset}_${tok.outcome}_${tag}_${nowMs}`
ClientOrderId(r) == <<r.token[1], r.token[2], r.tag, r.nowMs>>

StartClock == 2 * STALE_MS
OldRow == OrderRow(0, <<"BTC", "YES">>, "BUY", "GTC", 490, 4, "ACTIVE", 1, "SEED_BID", 0,
                   RUNNER_INTERVAL_MS)

CycleIds == 1 .. MaxCycles

IdleCycle ==
    [pc |-> "idle", outcome |-> "pending", threwAt |-> "none",
     assets |-> <<>>, ai |-> 1, ti |-> 1, nowMs |-> 0, totalUsd |-> 0,
     closeout |-> FALSE]

NoPlan == [run |-> 0]

Running(c) == cyc[c].pc \notin {"idle", "done"}

CurAsset(c) == cyc[c].assets[cyc[c].ai]
CurToken(c) == <<CurAsset(c), OutcomeSeq[cyc[c].ti]>>

---------------------------------------------------------------------------
(* How a runCycle() invocation ends *)

\* A faulty ending in which the error leaves runCycle() instead of being
\* swallowed; C7 must tell it from the real one
CaughtRethrown(cy, at) == [cy EXCEPT !.pc = "done", !.outcome = "rejected", !.threwAt = at]

\* A faulty ending in which the error is logged and the cycle carries on with
\* the asset loop; C21 must tell it from the real one
CaughtAndGoesOn(cy, at) ==
    [cy EXCEPT !.pc = "resolve", !.assets = <<"BTC">>, !.ai = 1, !.threwAt = at]

\* catch (err) { lastRunError = ... }: the error is swallowed and the
\* promise of the cycle resolves
Caught(cy, at) == [cy EXCEPT !.pc = "done", !.outcome = "resolved", !.threwAt = at]

\* "No enabled assets": return from inside the try, before insertRun
EarlyReturn(cy) == [cy EXCEPT !.pc = "done", !.outcome = "resolved"]

\* after insertRun: lastRunError = null, the function ends
Finished(cy) == [cy EXCEPT !.pc = "done", !.outcome = "resolved"]

\* continue of the token loop / the asset loop
NextAsset(cy) ==
    IF cy.ai < Len(cy.assets)
    THEN [cy EXCEPT !.ai = cy.ai + 1, !.ti = 1, !.pc = "resolve"]
    ELSE [cy EXCEPT !.pc = "summary"]

NextToken(cy) ==
    IF cy.ti < Len(OutcomeSeq)
    THEN [cy EXCEPT !.ti = cy.ti + 1, !.pc = "token"]
    ELSE NextAsset(cy)

---------------------------------------------------------------------------
(* State store (Supabase REST) *)

\* GET pm_orders ... status=eq.ACTIVE for one token
getActiveOrdersForToken(rows, tok) ==
    {r \in rows : r.token = tok /\ r.status = "ACTIVE"}

\* A faulty updateOrderStatus whose PATCH carries no order_id filter; C4 must
\* tell it from the real one
updateOrderStatusNoFilter(rows, oid, status) ==
    {[r EXCEPT !.status = status] : r \in rows}

\* PATCH pm_orders?order_id=eq.<oid>: every row with that order id
updateOrderStatus(rows, oid, status) ==
    {IF r.oid = oid THEN [r EXCEPT !.status = status] ELSE r : r \in rows}

\* the ids of the rows the stale-cancel loop tries to cancel
StaleIds(rows, tok, nowMs) ==
    {r.oid : r \in {x \in getActiveOrdersForToken(rows, tok) :
                        nowMs - x.placedAt > STALE_MS /\ x.oid # 0}}

\* allPositions.reduce(sum + shares * avg_cost)
RECURSIVE SumUsd(_, _)
SumUsd(ps, toks) ==
    IF toks = {} THEN 0
    ELSE LET t == CHOOSE x \in toks : TRUE
         IN  ps[t].shares * ps[t].avgCost + SumUsd(ps, toks \ {t})

\* what cancelOrder() + updateOrderStatus() can do for one stale row; a throw
\* of either is swallowed by the loop's own try/catch
CancelRes == {"ok", "throw"}

\* A faulty stale-cancel loop that marks every stale row CANCELLED whether or
\* not its cancel went through; C15 must tell it from the real one
CancelAllIgnoringFailure(rows, ids, cres) ==
    {IF r.oid \in ids THEN [r EXCEPT !.status = "CANCELLED"] ELSE r : r \in rows}

RECURSIVE CancelAll(_, _, _)
CancelAll(rows, ids, cres) ==
    IF ids = {} THEN rows
    ELSE LET i == CHOOSE x \in ids : TRUE
             next == IF cres[i] = "ok" THEN updateOrderStatus(rows, i, "CANCELLED") ELSE rows
         IN  CancelAll(next, ids \ {i}, cres)

\* order ids handed out to the first n placements of a plan
IdsBefore(subs, n) == Cardinality({j \in 1 .. n : HasId(subs[j].resp)})

\* rows insertOrder() writes for the placements of a plan
RowsOf(c, tok, subs, nowMs, at, firstId) ==
    {OrderRow(c, tok, subs[i].side, subs[i].otype, subs[i].price, subs[i].size,
              RowStatus(subs[i].otype, subs[i].resp),
              IF subs[i].resp = "id" THEN firstId + IdsBefore(subs, i - 1) ELSE 0,
              subs[i].tag, nowMs, at)
        : i \in {j \in DOMAIN subs : subs[j].resp \in {"id", "noid"}}}

\* the calls of createAndPostOrder a plan makes
CallsOf(subs) ==
    [i \in DOMAIN subs |->
        [side |-> subs[i].side, otype |-> subs[i].otype,
         price |-> PlaceOrderPrice(subs[i].price), size |-> subs[i].size,
         tick |-> subs[i].tick, tag |-> subs[i].tag, resp |-> subs[i].resp]]

\* the answers to the placements of one token, in call order: an answer is
\* read only when the call before it returned
RespSeqs(rs) ==
    {r \in [RespIdx -> rs] :
        \A i \in RespIdx : (i > 1 /\ Aborts(r[i - 1])) => r[i] = r[i - 1]}

---------------------------------------------------------------------------
(* Scheduling: startRunner *)

\* runCycle().catch(() => {}) at startup
StartRunner ==
    /\ started = 0
    /\ started' = 1
    /\ steps' = steps + 1
    /\ cyc' = [cyc EXCEPT ![1] = [IdleCycle EXCEPT !.pc = "begin"]]
    /\ UNCHANGED <<variant, seedEnabled, takeProfitBps, clock, clientState, orders,
                   positions, runsTable, nextOrderId, plan>>

\* setInterval(() => runCycle().catch(() => {}), RUNNER_INTERVAL_MS): the
\* callback calls runCycle() whatever the previous invocation is doing
TimerTick ==
    /\ started >= 1
    /\ started < MaxCycles
    /\ steps < MaxSteps
    /\ started' = started + 1
    /\ steps' = steps + 1
    /\ clock' = clock + RUNNER_INTERVAL_MS
    /\ cyc' = [cyc EXCEPT ![started + 1] = [IdleCycle EXCEPT !.pc = "begin"]]
    /\ UNCHANGED <<variant, seedEnabled, takeProfitBps, clientState, orders,
                   positions, runsTable, nextOrderId, plan>>

---------------------------------------------------------------------------
(* runCycle, one action per stage *)

\* await initClient(): the client is built once; a failed initialisation
\* leaves the rejected clientInitPromise in place
InitClientOk(ok) ==
    /\ clientState = "ready" => ok
    /\ clientState = "failed" => ~ok

\* initClient(), getEnabledAssets(), getAllPositions(), nowMs
CycBegin(c) ==
    /\ cyc[c].pc = "begin"
    /\ steps < MaxSteps
    /\ steps' = steps + 1
    /\ \/ /\ InitClientOk(FALSE)
          /\ clientState' = "failed"
          /\ cyc' = [cyc EXCEPT ![c] = Caught(@, "init")]
       \/ /\ InitClientOk(TRUE)
          /\ clientState' = "ready"
          /\ \/ cyc' = [cyc EXCEPT ![c] = Caught(@, "assets")]
             \/ cyc' = [cyc EXCEPT ![c] = EarlyReturn(@)]
             \/ \E as \in AssetLists \ {<<>>} :
                  cyc' = [cyc EXCEPT ![c] =
                            [@ EXCEPT !.pc = "resolve", !.assets = as, !.ai = 1,
                                      !.nowMs = clock,
                                      !.totalUsd = SumUsd(positions, Tokens)]]
    /\ UNCHANGED <<variant, seedEnabled, takeProfitBps, clock, started, orders,
                   positions, runsTable, nextOrderId, plan>>

\* market resolution for the current asset: resolveActiveMarket in a
\* try/catch (v6), discoverActiveMarkets that returns [] on any error (v5)
CycResolve(c) ==
    /\ cyc[c].pc = "resolve"
    /\ steps < MaxSteps
    /\ steps' = steps + 1
    /\ \/ /\ variant = "v6"
          /\ cyc' = [cyc EXCEPT ![c] = NextAsset(@)]   \* skipped: discovery_error
       \/ cyc' = [cyc EXCEPT ![c] = NextAsset(@)]       \* skipped: no_active_market
       \/ \E secs \in SecsLeftSet :
            cyc' = [cyc EXCEPT ![c] = [@ EXCEPT !.pc = "token", !.ti = 1,
                                                 !.closeout = (secs <= CLOSEOUT_SECONDS)]]
    /\ UNCHANGED <<variant, seedEnabled, takeProfitBps, clock, started, clientState,
                   orders, positions, runsTable, nextOrderId, plan>>

\* One pass of the token loop that does not reach the plan: fetchOrderBook()
\* throws, returns null, or returns a stale snapshot
CycTokenNoBook(c) ==
    /\ cyc[c].pc = "token"
    /\ steps < MaxSteps
    /\ steps' = steps + 1
    /\ \/ cyc' = [cyc EXCEPT ![c] = Caught(@, "token")]
       \/ cyc' = [cyc EXCEPT ![c] = NextToken(@)]   \* skipped: no_book, stale_book_fetch_slow
    /\ UNCHANGED <<variant, seedEnabled, takeProfitBps, clock, started, clientState,
                   orders, positions, runsTable, nextOrderId, plan>>

\* One pass of the token loop with a fresh snapshot: the stale-cancel loop,
\* the recount of the ACTIVE rows, the position, the plan and its placements
CycToken(c) ==
    /\ cyc[c].pc = "token"
    /\ steps < MaxSteps
    /\ steps' = steps + 1
    /\ LET cy    == cyc[c]
           tok   == CurToken(c)
           stale == StaleIds(orders, tok, cy.nowMs)
       IN  \E cres \in [stale -> CancelRes] :
             LET rows1  == CancelAll(orders, stale, cres)
                 active == getActiveOrdersForToken(rows1, tok)
                 nBuys  == Cardinality({r \in active : r.side = "BUY"})
                 nSells == Cardinality({r \in active : r.side = "SELL"})
             IN  \/ \* a store read after the cancel loop throws
                    /\ orders' = rows1
                    /\ cyc' = [cyc EXCEPT ![c] = Caught(cy, "token")]
                    /\ UNCHANGED <<positions, nextOrderId>>
                 \/ \E book \in Books, resp \in RespSeqs({"id", "noid", "throw"}) :
                      LET res == PlanToken(book, positions[tok], nBuys, nSells,
                                           cy.closeout, cy.totalUsd, resp)
                      IN  /\ orders' = rows1 \cup
                                       RowsOf(c, tok, res.subs, cy.nowMs, clock, nextOrderId)
                          /\ nextOrderId' = nextOrderId + IdsBefore(res.subs, Len(res.subs))
                          /\ positions' = IF res.posWrite = "none" THEN positions
                                          ELSE [positions EXCEPT ![tok] = PosRow(0, 0)]
                          /\ cyc' = [cyc EXCEPT ![c] = IF res.threw THEN Caught(cy, "token")
                                                         ELSE NextToken(cy)]
    /\ UNCHANGED <<variant, seedEnabled, takeProfitBps, clock, started, clientState,
                   runsTable, plan>>

\* insertRun({run_id, summary: stats, ...}) and the end of the function
CycSummary(c) ==
    /\ cyc[c].pc = "summary"
    /\ steps < MaxSteps
    /\ steps' = steps + 1
    /\ \/ /\ runsTable' = runsTable \cup {[run |-> c]}
          /\ cyc' = [cyc EXCEPT ![c] = Finished(@)]
       \/ /\ cyc' = [cyc EXCEPT ![c] = Caught(@, "summary")]
          /\ UNCHANGED runsTable
    /\ UNCHANGED <<variant, seedEnabled, takeProfitBps, clock, started, clientState,
                   orders, positions, nextOrderId, plan>>

---------------------------------------------------------------------------
(* The worker *)

Init ==
    /\ variant \in {"v5", "v6"}
    /\ seedEnabled \in BOOLEAN
    /\ variant = "v5" => ~seedEnabled
    /\ takeProfitBps = TAKE_PROFIT_BPS_DEFAULT
    /\ clock = StartClock
    /\ started = 0
    /\ steps = 0
    /\ cyc = [c \in CycleIds |-> IdleCycle]
    /\ clientState = "none"
    /\ orders = {OldRow}
    /\ \E p \in InitPositions :
         positions = [t \in Tokens |-> IF t = <<"BTC", "YES">> THEN p ELSE NoPos]
    /\ runsTable = {}
    /\ nextOrderId = 2
    /\ plan = NoPlan

Next ==
    \/ StartRunner
    \/ TimerTick
    \/ \E c \in CycleIds : CycBegin(c)
    \/ \E c \in CycleIds : CycResolve(c)
    \/ \E c \in CycleIds : CycTokenNoBook(c)
    \/ \E c \in CycleIds : CycToken(c)
    \/ \E c \in CycleIds : CycSummary(c)

Spec == Init /\ [][Next]_vars

---------------------------------------------------------------------------
(* The planner on its own: one token's pass over drawn inputs *)

\* books the planner is run on
ThinBook     == Book(400, 600, 1, 1, DefaultTick)
HighBook     == Book(820, 830, 100, 100, DefaultTick)
ShallowBook  == Book(550, 590, 20, 100, DefaultTick)
ThinBidBook  == Book(550, 590, 1, 100, DefaultTick)
NoAskBook    == Book(550, PriceScale, 100, 0, DefaultTick)
\* a market quoted in ticks of 0.001 with a spread of one tick
FineTickBook == Book(550, 551, 100, 100, 1)
PlanBooks    ==
    {DeadBook, ThinBook, RealBook, HighBook, ShallowBook, ThinBidBook, NoAskBook,
     FineTickBook}

\* positions the planner is run on
PlanPositions ==
    {NoPos, PosRow(0, 0), PosRow(10, 400), PosRow(10, 575), PosRow(1, 530), PosRow(10, 800),
     PosRow(10, 980)}

ActiveCounts == 0 .. MAX_OPEN_ORDERS_PER_TOKEN

\* TAKE_PROFIT_BPS as configured: the default and a stricter setting
TakeProfitBpsSet == {TAKE_PROFIT_BPS_DEFAULT, 5 * TAKE_PROFIT_BPS_DEFAULT}

PlanStep ==
    /\ plan = NoPlan
    /\ \E book \in PlanBooks, pos \in PlanPositions, closeout \in BOOLEAN,
          nBuys \in ActiveCounts, nSells \in ActiveCounts, resp \in RespSeqs(Resp) :
           LET res == PlanToken(book, pos, nBuys, nSells, closeout,
                                pos.shares * pos.avgCost, resp)
           IN  /\ plan' = [run |-> 1, book |-> book, pos |-> pos, closeout |-> closeout,
                           nBuys |-> nBuys, nSells |-> nSells,
                           subs |-> res.subs, calls |-> CallsOf(res.subs),
                           skips |-> res.skips, posWrite |-> res.posWrite,
                           threw |-> res.threw]
               /\ UNCHANGED <<variant, seedEnabled, takeProfitBps, clock, started, cyc,
                              clientState, orders, positions, runsTable, nextOrderId, steps>>

InitPlan ==
    /\ variant \in {"v5", "v6"}
    /\ seedEnabled \in BOOLEAN
    /\ variant = "v5" => ~seedEnabled
    /\ takeProfitBps \in TakeProfitBpsSet
    /\ clock = StartClock
    /\ started = 0
    /\ steps = 0
    /\ cyc = [c \in CycleIds |-> IdleCycle]
    /\ clientState = "none"
    /\ orders = {}
    /\ positions = [t \in Tokens |-> NoPos]
    /\ runsTable = {}
    /\ nextOrderId = 2
    /\ plan = NoPlan

NextPlan == PlanStep

SpecPlan == InitPlan /\ [][NextPlan]_vars

---------------------------------------------------------------------------
(* One token over two consecutive cycles: the pass from the book fetch on *)

\* A faulty fetchOrderBook that never marks a snapshot stale; C14 must tell
\* it from the real one
fetchOrderBookNoStale(httpOk, fetchMs, book) ==
    IF ~httpOk THEN [kind |-> "null"] ELSE [kind |-> "book", book |-> book]

\* fetchOrderBook(tokenId): null on a non-OK response, a stale marker when
\* the fetch took longer than BOOK_STALE_MS, the top of book otherwise
fetchOrderBook(httpOk, fetchMs, book) ==
    IF ~httpOk THEN [kind |-> "null"]
    ELSE IF fetchMs > BOOK_STALE_MS THEN [kind |-> "stale", reason |-> "fetch_slow"]
    ELSE [kind |-> "book", book |-> book]

\* fetch latencies: exactly at the bound, over it
FetchMsSet == {BOOK_STALE_MS, BOOK_STALE_MS + 1}

\* what cancelOrder() + updateOrderStatus() can do for one stale row:
\* both succeed, the venue cancel throws, the status PATCH throws
PassCancelRes == {"ok", "cancelThrow", "updateThrow"}

\* a pass that ends at the book fetch
PassNoBook(fetch, fetchMs, nowMs, rows, pos, closeout, skips, threw) ==
    [fetch |-> fetch, fetchMs |-> fetchMs, nowMs |-> nowMs, closeout |-> closeout,
     pos |-> pos, rowsIn |-> rows, staleIds |-> {}, cres |-> << >>, rowsCancelled |-> rows,
     nBuys |-> 0, nSells |-> 0, calls |-> <<>>, skips |-> skips,
     posWrite |-> "none", threw |-> threw, rowsOut |-> rows]

\* the body of the token loop for one token: fetch, stale-cancel loop,
\* recount, plan and placements; env holds what the venue and the book
\* endpoint answer
TokenPass(run, tok, rows, pos, nowMs, firstId, closeout, book, env) ==
    LET fetchMs == env.fetchMs
        cres    == env.cres
        resp    == env.resp
        snap    == fetchOrderBook(env.httpOk, fetchMs, book)
    IN  IF env.fetchThrows THEN PassNoBook("throw", fetchMs, nowMs, rows, pos, closeout, <<>>, TRUE)
        ELSE IF snap.kind = "null"
             THEN PassNoBook("null", fetchMs, nowMs, rows, pos, closeout, <<"no_book">>, FALSE)
        ELSE IF snap.kind = "stale"
             THEN PassNoBook("stale", fetchMs, nowMs, rows, pos, closeout,
                             <<"stale_book_fetch_slow">>, FALSE)
        ELSE LET stale  == StaleIds(rows, tok, nowMs)
                 rows1  == CancelAll(rows, stale, cres)
                 active == getActiveOrdersForToken(rows1, tok)
                 nBuys  == Cardinality({r \in active : r.side = "BUY"})
                 nSells == Cardinality({r \in active : r.side = "SELL"})
                 res    == PlanToken(snap.book, pos, nBuys, nSells, closeout,
                                     pos.shares * pos.avgCost, resp)
             IN  [fetch |-> "book", fetchMs |-> fetchMs, nowMs |-> nowMs,
                  closeout |-> closeout, pos |-> pos,
                  rowsIn |-> rows, staleIds |-> stale,
                  cres |-> [i \in stale |-> cres[i]], rowsCancelled |-> rows1,
                  nBuys |-> nBuys, nSells |-> nSells,
                  calls |-> CallsOf(res.subs), skips |-> res.skips,
                  posWrite |-> res.posWrite, threw |-> res.threw,
                  rowsOut |-> rows1 \cup RowsOf(run, tok, res.subs, nowMs, nowMs, firstId)]

PassToken == <<"BTC", "YES">>

\* ACTIVE rows a pass can find: none, a stale buy, a stale buy and a stale sell
OldSell == OrderRow(0, PassToken, "SELL", "GTC", 510, 3, "ACTIVE", 2, "SEED_ASK", 0,
                    RUNNER_INTERVAL_MS)
PassOrderSets == {{}, {OldRow}, {OldRow, OldSell}}

PassBooks == {DeadBook, RealBook}

\* the pass of the next cycle over the same token and the same book
PassStep ==
    /\ plan.run = 0
    /\ Len(plan.passes) < 2
    /\ \E closeout \in BOOLEAN, fetchThrows \in BOOLEAN :
       \E httpOk \in (IF fetchThrows THEN {TRUE} ELSE BOOLEAN) :
       \E fetchMs \in (IF fetchThrows \/ ~httpOk THEN {BOOK_STALE_MS} ELSE FetchMsSet) :
       \E cres \in [StaleIds(orders, PassToken, clock) -> PassCancelRes] :
       \E resp \in (IF fetchThrows \/ ~httpOk \/ fetchMs > BOOK_STALE_MS
                    THEN {[i \in RespIdx |-> "id"]}
                    ELSE RespSeqs({"id", "noid", "throw"})) :
           LET n == Len(plan.passes) + 1
               p == TokenPass(n, PassToken, orders, positions[PassToken], clock,
                              nextOrderId, closeout, plan.book,
                              [fetchThrows |-> fetchThrows, httpOk |-> httpOk,
                               fetchMs |-> fetchMs, cres |-> cres, resp |-> resp])
           IN  /\ plan' = [plan EXCEPT !.passes = Append(@, p)]
               /\ orders' = p.rowsOut
               /\ positions' = IF p.posWrite = "none" THEN positions
                               ELSE [positions EXCEPT ![PassToken] = PosRow(0, 0)]
               /\ nextOrderId' = nextOrderId +
                      Cardinality({i \in DOMAIN p.calls : HasId(p.calls[i].resp)})
               /\ clock' = clock + RUNNER_INTERVAL_MS
    /\ UNCHANGED <<variant, seedEnabled, takeProfitBps, started, cyc, clientState,
                   runsTable, steps>>

InitPass ==
    /\ variant \in {"v5", "v6"}
    /\ seedEnabled \in BOOLEAN
    /\ variant = "v5" => ~seedEnabled
    /\ takeProfitBps = TAKE_PROFIT_BPS_DEFAULT
    /\ clock = StartClock
    /\ started = 0
    /\ steps = 0
    /\ cyc = [c \in CycleIds |-> IdleCycle]
    /\ clientState = "ready"
    /\ orders \in PassOrderSets
    /\ \E p \in InitPositions :
         positions = [t \in Tokens |-> IF t = PassToken THEN p ELSE NoPos]
    /\ runsTable = {}
    /\ nextOrderId = 3
    /\ \E b \in PassBooks : plan = [run |-> 0, book |-> b, passes |-> <<>>]

NextPass == PassStep

SpecPass == InitPass /\ [][NextPass]_vars

---------------------------------------------------------------------------
(* The eligibility gate on its own: one call, then the same call with one
   threshold tightened *)

\* top-of-book prices and sizes fetchOrderBook() can report; bestBid is 0 with
\* no bids and bestAsk is 1 with no asks
GateBids == {0, ClampLo, MIN_BID - 5, MIN_BID, 550}
GateAsks == {590, MAX_ASK - 5, MAX_ASK + 5, ClampHi, PriceScale}
GateSizes == {1, 20, 100}
GateBooks ==
    {Book(b, a, bs, as, DefaultTick) :
        b \in GateBids, a \in GateAsks, bs \in GateSizes, as \in GateSizes}

\* CONFIG with one gate threshold made stricter
Tightenings ==
    {[GateThresholds EXCEPT !.MIN_BID = 560],
     [GateThresholds EXCEPT !.MAX_ASK = MAX_ASK - 10],
     [GateThresholds EXCEPT !.MAX_ASK = 580],
     [GateThresholds EXCEPT !.MAX_SPREAD_BPS = 500],
     [GateThresholds EXCEPT !.MIN_TOP_SUM_DEPTH_USD = 10 * MIN_TOP_SUM_DEPTH_USD],
     [GateThresholds EXCEPT !.FOK_MIN_DEPTH_USD = 10 * FOK_MIN_DEPTH_USD],
     [GateThresholds EXCEPT !.MIN_ASK_DEPTH_USD = 10 * MIN_ASK_DEPTH_USD],
     [GateThresholds EXCEPT !.MIN_BID_DEPTH_USD = 10 * MIN_BID_DEPTH_USD]}

GateStep ==
    /\ plan = NoPlan
    /\ \E book \in GateBooks, side \in {"BUY", "SELL"}, mode \in {"MAKER", "FOK"},
          tight \in Tightenings :
           plan' = [run |-> 1, book |-> book, side |-> side, mode |-> mode,
                    tight |-> tight,
                    gate |-> checkEligibility(book, side, mode),
                    tightReason |-> GateReasonWith(tight, book, side, mode)]
    /\ UNCHANGED <<variant, seedEnabled, takeProfitBps, clock, started, cyc, clientState,
                   orders, positions, runsTable, nextOrderId, steps>>

NextGate == GateStep

SpecGate == InitPlan /\ [][NextGate]_vars

---------------------------------------------------------------------------
(* The asset loop of one cycle: market resolution asset by asset *)

\* what the Gamma listing request can do
GammaOutcomes == {"fetchThrows", "notOk", "notArray", "parseError", "noMatch", "match"}

\* how resolveActiveMarket finds the market of an asset (v6); v5 always scans
ResolveModes == {"TARGET_IDS", "TARGET_SLUG", "SCAN"}

\* resolveMarketFromGammaBySlugExact(slug): throws on a failed fetch, a non-OK
\* response, a body that is not an array or does not parse; null on no match
resolveMarketFromGammaBySlugExact(o) ==
    IF o \in {"fetchThrows", "notOk", "notArray", "parseError"} THEN "throw"
    ELSE IF o = "noMatch" THEN "null" ELSE "market"

\* resolveActiveMarket(asset): target token ids need no listing; a target
\* slug goes through the exact match; the scan returns null on a non-OK
\* response or a non-array body and throws on the rest
resolveActiveMarket(mode, o) ==
    IF mode = "TARGET_IDS" THEN "market"
    ELSE IF mode = "TARGET_SLUG" THEN resolveMarketFromGammaBySlugExact(o)
    ELSE IF o \in {"fetchThrows", "parseError"} THEN "throw"
    ELSE IF o \in {"notOk", "notArray", "noMatch"} THEN "null"
    ELSE "market"

\* discoverActiveMarkets(asset) of v5: [] on any error and on no match
discoverActiveMarkets(o) == IF o = "match" THEN "market" ELSE "null"

\* A faulty call site with no try/catch around the resolution; C22 must tell
\* it from the real one
ResolveAtCallSiteNoCatch(v, mode, o) ==
    LET r == IF v = "v5" THEN discoverActiveMarkets(o) ELSE resolveActiveMarket(mode, o)
    IN  IF r = "throw" THEN [market |-> FALSE, skip |-> "none", threw |-> TRUE]
        ELSE IF r = "null" THEN [market |-> FALSE, skip |-> "no_active_market", threw |-> FALSE]
        ELSE [market |-> TRUE, skip |-> "none", threw |-> FALSE]

\* the head of the asset loop: the resolution in its try/catch (v6), the
\* empty-list test (v5), and the skip pushed to stats.skipped
ResolveAtCallSite(v, mode, o) ==
    LET r == IF v = "v5" THEN discoverActiveMarkets(o) ELSE resolveActiveMarket(mode, o)
    IN  IF r = "throw" THEN [market |-> FALSE, skip |-> "discovery_error", threw |-> FALSE]
        ELSE IF r = "null" THEN [market |-> FALSE, skip |-> "no_active_market", threw |-> FALSE]
        ELSE [market |-> TRUE, skip |-> "none", threw |-> FALSE]

\* what getEnabledAssets() can return when it returns assets
EnabledLists == {<<"BTC">>, <<"BTC", "ETH">>, <<"ETH", "SOL", "BTC">>}

AssetLoop == plan.run = 0 /\ "assets" \in DOMAIN plan

\* the asset loop moves on to the next asset, or to the summary after the last
LoopNext(p) ==
    IF p.ai < Len(p.assets) THEN [p EXCEPT !.ai = p.ai + 1, !.pc = "resolve"]
    ELSE [p EXCEPT !.pc = "summary"]

LoopFrame ==
    UNCHANGED <<variant, seedEnabled, takeProfitBps, clock, started, cyc, clientState,
                orders, positions, runsTable, nextOrderId, steps>>

\* resolution of the current asset
LoopResolve ==
    /\ AssetLoop
    /\ plan.pc = "resolve"
    /\ \E mode \in ResolveModes, o \in GammaOutcomes :
         LET r == ResolveAtCallSite(variant, mode, o)
             a == plan.assets[plan.ai]
         IN  plan' =
                IF r.threw THEN [plan EXCEPT !.pc = "done", !.threwAt = "resolve"]
                ELSE IF r.market
                     THEN [plan EXCEPT !.pc = "tokens", !.markets = Append(@, a)]
                ELSE LoopNext([plan EXCEPT !.skipped =
                                   Append(@, [asset |-> a, reason |-> r.skip])])
    /\ LoopFrame

\* the token loop of a resolved asset: it completes, or an error raised in
\* it reaches the outer catch of runCycle
LoopTokens ==
    /\ AssetLoop
    /\ plan.pc = "tokens"
    /\ \/ plan' = LoopNext([plan EXCEPT !.processed = Append(@, plan.assets[plan.ai])])
       \/ plan' = [plan EXCEPT !.pc = "done", !.threwAt = "token"]
    /\ LoopFrame

\* insertRun with the summary, and the end of the cycle
LoopSummary ==
    /\ AssetLoop
    /\ plan.pc = "summary"
    /\ plan' = [plan EXCEPT !.pc = "done"]
    /\ LoopFrame

InitLoop ==
    /\ variant \in {"v5", "v6"}
    /\ seedEnabled = FALSE
    /\ takeProfitBps = TAKE_PROFIT_BPS_DEFAULT
    /\ clock = StartClock
    /\ started = 0
    /\ steps = 0
    /\ cyc = [c \in CycleIds |-> IdleCycle]
    /\ clientState = "ready"
    /\ orders = {}
    /\ positions = [t \in Tokens |-> NoPos]
    /\ runsTable = {}
    /\ nextOrderId = 2
    /\ \E as \in EnabledLists :
         plan = [run |-> 0, assets |-> as, ai |-> 1, pc |-> "resolve", threwAt |-> "none",
                 skipped |-> <<>>, markets |-> <<>>, processed |-> <<>>]

NextLoop == LoopResolve \/ LoopTokens \/ LoopSummary

SpecLoop == InitLoop /\ [][NextLoop]_vars

---------------------------------------------------------------------------
(* The control API: one request to POST /place or POST /cancel *)

\* the workers that serve the control API: the two scalpers and the
\* pm-proxy-v1 server
ApiVariants == {"v5", "v6", "proxy"}

\* the Authorization header: absent, a bearer with another token, the bearer
\* with WORKER_SECRET
AuthHeaders == {"missing", "wrong", "exact"}

\* the X-Dry-Run header
DryRunHeaders == {"absent", "1", "true"}

\* authMiddleware (v5, v6): 401 without a bearer, 403 on another token
authMiddleware(auth) ==
    IF auth = "missing" THEN 401 ELSE IF auth # "exact" THEN 403 ELSE 200

\* requireAuth (pm-proxy-v1): 401 unless the header is exactly the bearer
requireAuth(auth) == IF auth # "exact" THEN 401 ELSE 200

isDryRun(h) == h = "1" \/ h = "true"

\* String(side).toUpperCase()
UpperSide(side) ==
    CASE side \in {"buy", "BUY"} -> "BUY"
      [] side \in {"sell", "SELL"} -> "SELL"
      [] OTHER -> side

Reply(status, venue) == [status |-> status, venue |-> venue]

\* POST /place of v5: only the presence and the types of the fields are
\* tested; placeOrder() maps every side but SELL to BUY and clamps the price
PlaceV5(req) ==
    IF authMiddleware(req.auth) # 200 THEN Reply(authMiddleware(req.auth), <<>>)
    ELSE IF ~req.tokenId \/ ~req.numeric \/ req.side = "" THEN Reply(400, <<>>)
    ELSE Reply(200, <<[op |-> "createAndPostOrder",
                       side |-> IF UpperSide(req.side) = "SELL" THEN "SELL" ELSE "BUY",
                       price |-> PlaceOrderPrice(req.price), size |-> req.size]>>)

\* POST /place of pm-proxy-v1: side, price and size are validated, and a
\* dry run answers before the venue is called
PlaceProxy(req) ==
    IF requireAuth(req.auth) # 200 THEN Reply(401, <<>>)
    ELSE IF ~req.tokenId \/ req.side = "" \/ ~req.numeric THEN Reply(400, <<>>)
    ELSE IF UpperSide(req.side) \notin {"BUY", "SELL"} THEN Reply(400, <<>>)
    ELSE IF req.price <= 0 \/ req.price >= PriceScale THEN Reply(400, <<>>)
    ELSE IF req.size <= 0 THEN Reply(400, <<>>)
    ELSE IF isDryRun(req.dry) THEN Reply(200, <<>>)
    ELSE Reply(200, <<[op |-> "createAndPostOrder", side |-> UpperSide(req.side),
                       price |-> req.price, size |-> req.size]>>)

\* POST /cancel: the same in the three workers but for the auth check; the
\* X-Dry-Run header is not read
CancelAny(v, req) ==
    LET a == IF v = "proxy" THEN requireAuth(req.auth) ELSE authMiddleware(req.auth)
    IN  IF a # 200 THEN Reply(a, <<>>)
        ELSE IF ~req.orderId THEN Reply(400, <<>>)
        ELSE Reply(200, <<[op |-> "cancelOrder"]>>)

\* the route table: v6 has no POST /place
Handle(v, req) ==
    IF req.endpoint = "cancel" THEN CancelAny(v, req)
    ELSE IF v = "v5" THEN PlaceV5(req)
    ELSE IF v = "proxy" THEN PlaceProxy(req)
    ELSE Reply(404, <<>>)

\* request bodies: prices in thousandths, sizes in shares; numeric is FALSE
\* when price or size is not a JSON number
ApiPrices == {0 - 500, 0, 500, PriceScale, PriceScale + 500}
ApiSizes == {0 - 1, 0, 5}
ApiSides == {"BUY", "sell", "HOLD", ""}

PlaceRequests ==
    [endpoint : {"place"}, auth : AuthHeaders, dry : DryRunHeaders, tokenId : BOOLEAN,
     numeric : BOOLEAN, price : ApiPrices, size : ApiSizes, side : ApiSides,
     orderId : {FALSE}]

CancelRequests ==
    [endpoint : {"cancel"}, auth : AuthHeaders, dry : DryRunHeaders, tokenId : {FALSE},
     numeric : {FALSE}, price : {0}, size : {0}, side : {""}, orderId : BOOLEAN]

ApiStep ==
    /\ plan = NoPlan
    /\ \E req \in PlaceRequests \cup CancelRequests :
         plan' = [run |-> 1, req |-> req, reply |-> Handle(variant, req)]
    /\ UNCHANGED <<variant, seedEnabled, takeProfitBps, clock, started, cyc, clientState,
                   orders, positions, runsTable, nextOrderId, steps>>

InitApi ==
    /\ variant \in ApiVariants
    /\ seedEnabled = FALSE
    /\ takeProfitBps = TAKE_PROFIT_BPS_DEFAULT
    /\ clock = StartClock
    /\ started = 0
    /\ steps = 0
    /\ cyc = [c \in CycleIds |-> IdleCycle]
    /\ clientState = "ready"
    /\ orders = {OldRow}
    /\ positions = [t \in Tokens |-> NoPos]
    /\ runsTable = {}
    /\ nextOrderId = 2
    /\ plan = NoPlan

NextApi == ApiStep

SpecApi == InitApi /\ [][NextApi]_vars

---------------------------------------------------------------------------
(* One cycle as the sequence of its awaited external calls *)

\* the calls one token's pass awaits, in order
TokenCalls ==
    <<"fetchOrderBook", "getActiveOrdersForToken", "cancelOrder", "getPosition",
      "placeOrder", "insertOrder">>

\* the calls one asset awaits: the resolution, then its two tokens
AssetCalls == <<"resolveActiveMarket">> \o TokenCalls \o TokenCalls

RECURSIVE AssetsCalls(_)
AssetsCalls(n) == IF n = 0 THEN <<>> ELSE AssetCalls \o AssetsCalls(n - 1)

\* the calls runCycle() awaits over n enabled assets
CycleCalls(n) ==
    <<"initClient", "getEnabledAssets", "getAllPositions">> \o AssetsCalls(n)
        \o <<"insertRun">>

\* calls whose failure is caught where they are made: the resolution (v6) and
\* the stale cancel; every other failure goes to the outer catch of runCycle
CaughtInPlace == {"resolveActiveMarket", "cancelOrder"}

Awaiting == plan.run = 0 /\ "calls" \in DOMAIN plan

WaitFrame ==
    UNCHANGED <<variant, seedEnabled, takeProfitBps, clock, started, cyc, clientState,
                orders, positions, runsTable, nextOrderId, steps>>

\* the cycle reaches its next await and issues the call; fetch(), the
\* Supabase requests and the CLOB client calls are made with no timeout
WaitCall ==
    /\ Awaiting
    /\ plan.pc = "running" /\ ~plan.waiting
    /\ plan' = [plan EXCEPT !.waiting = TRUE]
    /\ WaitFrame

\* the other side answers the pending call, with a result or with an error
WaitAnswer ==
    /\ Awaiting
    /\ plan.pc = "running" /\ plan.waiting
    /\ \E ok \in BOOLEAN :
         LET call == plan.calls[plan.at]
             last == plan.at = Len(plan.calls)
         IN  plan' =
                IF ~ok /\ call \notin CaughtInPlace
                THEN [plan EXCEPT !.pc = "done", !.waiting = FALSE, !.error = call]
                ELSE IF last THEN [plan EXCEPT !.pc = "done", !.waiting = FALSE]
                ELSE [plan EXCEPT !.at = plan.at + 1, !.waiting = FALSE]
    /\ WaitFrame

InitWait ==
    /\ variant = "v6"
    /\ seedEnabled = FALSE
    /\ takeProfitBps = TAKE_PROFIT_BPS_DEFAULT
    /\ clock = StartClock
    /\ started = 1
    /\ steps = 0
    /\ cyc = [c \in CycleIds |-> IdleCycle]
    /\ clientState = "none"
    /\ orders = {}
    /\ positions = [t \in Tokens |-> NoPos]
    /\ runsTable = {}
    /\ nextOrderId = 2
    /\ \E as \in EnabledLists :
         plan = [run |-> 0, calls |-> CycleCalls(Len(as)), at |-> 1, waiting |-> FALSE,
                 pc |-> "running", error |-> "none"]

NextWait == WaitCall \/ WaitAnswer

\* the event loop runs the cycle whenever it can go on; nothing obliges the
\* other side of a call to answer
SpecWait == InitWait /\ [][NextWait]_vars /\ WF_vars(WaitCall)

---------------------------------------------------------------------------
(* One token under two overlapping cycles and the manual cancel endpoint,
   await by await *)

RaceIds == 1 .. 2

Racing == plan.run = 0 /\ "pass" \in DOMAIN plan

IdlePass == [pc |-> "idle", nowMs |-> 0, stale |-> {}, inflight |-> 0, nBuys |-> 0, nSells |-> 0]

RaceFrame ==
    UNCHANGED <<variant, seedEnabled, takeProfitBps, started, cyc, clientState,
                positions, runsTable, steps>>

\* a cycle reaches the token: dbOrders = getActiveOrdersForToken(...), whose
\* stale rows the loop will cancel one by one; the timer starts the second
\* cycle whether or not the first has ended
RaceBegin(c) ==
    /\ Racing
    /\ plan.pass[c].pc = "idle"
    /\ c > 1 => plan.pass[c - 1].pc # "idle"
    /\ plan' = [plan EXCEPT !.pass[c] =
                  [IdlePass EXCEPT !.pc = "cancel", !.nowMs = clock,
                                   !.stale = StaleIds(orders, PassToken, clock)]]
    /\ clock' = clock + RUNNER_INTERVAL_MS
    /\ UNCHANGED <<orders, nextOrderId>>
    /\ RaceFrame

\* await cancelOrder(client, o.order_id): the cancel of one stale row is sent
RaceCancelSend(c) ==
    /\ Racing
    /\ plan.pass[c].pc = "cancel"
    /\ \E id \in plan.pass[c].stale :
         plan' = [plan EXCEPT !.pass[c].pc = "cancelWait", !.pass[c].inflight = id]
    /\ UNCHANGED <<clock, orders, nextOrderId>>
    /\ RaceFrame

\* the cancel and the status update complete, or one of them fails and the
\* catch ignores it
RaceCancelDone(c) ==
    /\ Racing
    /\ plan.pass[c].pc = "cancelWait"
    /\ LET id == plan.pass[c].inflight
       IN  /\ plan' = [plan EXCEPT !.pass[c].pc = "cancel", !.pass[c].inflight = 0,
                                   !.pass[c].stale = @ \ {id}]
           /\ \E res \in CancelRes :
                orders' = CancelAll(orders, {id}, [i \in {id} |-> res])
    /\ UNCHANGED <<clock, nextOrderId>>
    /\ RaceFrame

\* dbOrders = await getActiveOrdersForToken(...) after the loop: the counts
\* the caps are tested against
RaceRecount(c) ==
    /\ Racing
    /\ plan.pass[c].pc = "cancel" /\ plan.pass[c].stale = {}
    /\ LET active == getActiveOrdersForToken(orders, PassToken)
       IN  plan' = [plan EXCEPT
                      !.pass[c].pc = "evaluate",
                      !.pass[c].nBuys = Cardinality({r \in active : r.side = "BUY"}),
                      !.pass[c].nSells = Cardinality({r \in active : r.side = "SELL"})]
    /\ UNCHANGED <<clock, orders, nextOrderId>>
    /\ RaceFrame

\* the plan on the counts read, and its placements
RacePlace(c) ==
    /\ Racing
    /\ plan.pass[c].pc = "evaluate"
    /\ LET p   == plan.pass[c]
           res == PlanToken(DeadBook, positions[PassToken], p.nBuys, p.nSells, FALSE,
                            0, [i \in RespIdx |-> "id"])
       IN  /\ orders' = orders \cup
                  RowsOf(c, PassToken, res.subs, p.nowMs, p.nowMs, nextOrderId)
           /\ nextOrderId' = nextOrderId + Len(res.subs)
    /\ plan' = [plan EXCEPT !.pass[c].pc = "done"]
    /\ UNCHANGED clock
    /\ RaceFrame

\* POST /cancel: client.cancelOrder(orderId) is sent for an order of the token
ManualCancelSend ==
    /\ Racing
    /\ plan.manual.pc = "idle"
    /\ \E r \in getActiveOrdersForToken(orders, PassToken) :
         plan' = [plan EXCEPT !.manual = [pc |-> "inflight", oid |-> r.oid]]
    /\ UNCHANGED <<clock, orders, nextOrderId>>
    /\ RaceFrame

\* the venue answers; the handler replies and writes nothing to pm_orders
ManualCancelDone ==
    /\ Racing
    /\ plan.manual.pc = "inflight"
    /\ plan' = [plan EXCEPT !.manual.pc = "done"]
    /\ UNCHANGED <<clock, orders, nextOrderId>>
    /\ RaceFrame

InitRace ==
    /\ variant = "v6"
    /\ seedEnabled \in BOOLEAN
    /\ takeProfitBps = TAKE_PROFIT_BPS_DEFAULT
    /\ clock = StartClock
    /\ started = 1
    /\ steps = 0
    /\ cyc = [c \in CycleIds |-> IdleCycle]
    /\ clientState = "ready"
    /\ orders \in PassOrderSets
    /\ positions = [t \in Tokens |-> NoPos]
    /\ runsTable = {}
    /\ nextOrderId = 3
    /\ plan = [run |-> 0, pass |-> [c \in RaceIds |-> IdlePass],
               manual |-> [pc |-> "idle", oid |-> 0]]

NextRace ==
    \/ \E c \in RaceIds :
         \/ RaceBegin(c)
         \/ RaceCancelSend(c)
         \/ RaceCancelDone(c)
         \/ RaceRecount(c)
         \/ RacePlace(c)
    \/ ManualCancelSend
    \/ ManualCancelDone

SpecRace == InitRace /\ [][NextRace]_vars

---------------------------------------------------------------------------
(* The scan of the Gamma listing: resolveActiveMarket in SCAN mode (v6) and
   discoverActiveMarkets (v5) *)

MaxListings == 2

\* a listing: whether question/slug carry the asset and the up-or-down
\* keywords and the 15-minute marker; its end date in ms from now (0 when the
\* listing has none or one that does not parse); its clobTokenIds
ListingMatches == {"both", "keywordsOnly", "markerOnly"}
ListingEnds == {0, 0 - 1000, 30500, 31000, 60000}
ListingTokens == {"two", "one", "bad"}
Listings == [match : ListingMatches, endIn : ListingEnds, tokens : ListingTokens]
ListingSeqs == UNION {[1 .. n -> Listings] : n \in 0 .. MaxListings}

\* the listing gets as far as its clobTokenIds
ScanReaches(l) == l.match = "both" /\ l.endIn > 0

\* JSON.parse(m.clobTokenIds) throws on the first such listing
ScanThrows(ls) == \E i \in DOMAIN ls : ScanReaches(ls[i]) /\ ls[i].tokens = "bad"

\* secsToEnd = Math.floor((endMs - now) / 1000)
secsToEnd(l) == l.endIn \div 1000

\* the listing is pushed to out
ScanKept(l) == ScanReaches(l) /\ l.tokens = "two" /\ secsToEnd(l) > 30

\* A faulty choice that takes the first listing kept; C33 must tell it from
\* the real one
ScanPickFirst(ls, kept) == CHOOSE i \in kept : \A j \in kept : i <= j

\* out.sort((a, b) => a.endDateMs - b.endDateMs); out[0]: the sort is stable
ScanPick(ls, kept) ==
    CHOOSE i \in kept :
        \A j \in kept : ls[i].endIn < ls[j].endIn \/ (ls[i].endIn = ls[j].endIn /\ i <= j)

\* what the scan gives the asset loop: a thrown error (v6 only), no market,
\* or the listing at idx
ScanResult(v, ls) ==
    LET kept == {i \in DOMAIN ls : ScanKept(ls[i])}
    IN  IF ScanThrows(ls)
        THEN [kind |-> IF v = "v5" THEN "null" ELSE "throw", idx |-> 0]
        ELSE IF kept = {} THEN [kind |-> "null", idx |-> 0]
        ELSE [kind |-> "market", idx |-> ScanPick(ls, kept)]

ScanStep ==
    /\ plan = NoPlan
    /\ \E ls \in ListingSeqs :
         plan' = [run |-> 1, listings |-> ls, scan |-> ScanResult(variant, ls)]
    /\ UNCHANGED <<variant, seedEnabled, takeProfitBps, clock, started, cyc, clientState,
                   orders, positions, runsTable, nextOrderId, steps>>

NextScan == ScanStep

SpecScan == InitPlan /\ [][NextScan]_vars

---------------------------------------------------------------------------
(* The closeout flag of a resolved market (v6) *)

\* endDateMs: Date.now() + 10 * 60 * 1000, the placeholder of a market
\* resolved from configured token ids, in ms
TargetPlaceholderMs == 600000

\* CLOSEOUT_SECONDS as the environment can configure it
CloseoutSettings == {0, CLOSEOUT_SECONDS, 599, 600, 900}

\* ms between the resolution and the reading of Date.now() for secsLeft
ElapsedSet == {0, 1, 2000}

\* end of the market in ms from the resolution; 0 stands for a listing found
\* by slug with no end date (endDateMs 0)
MarketEndIn(mode, endIn) == IF mode = "TARGET_IDS" THEN TargetPlaceholderMs ELSE endIn

\* secsLeft = Math.max(0, Math.floor((endMs - Date.now()) / 1000)), with the
\* placeholder taken anew when endDateMs is 0
SecsLeft(endIn, elapsed) ==
    IF endIn = 0 THEN TargetPlaceholderMs \div 1000
    ELSE Max(0, (endIn - elapsed) \div 1000)

\* A faulty flag that is never raised; C37 must tell it from the real one
isCloseoutNever(secsLeft, closeoutSeconds) == FALSE

isCloseout(secsLeft, closeoutSeconds) == secsLeft <= closeoutSeconds

CloseoutStep ==
    /\ plan = NoPlan
    /\ \E mode \in ResolveModes, cs \in CloseoutSettings, elapsed \in ElapsedSet :
       \E endIn \in (IF mode = "TARGET_IDS" THEN {0}
                     ELSE IF mode = "TARGET_SLUG" THEN ListingEnds
                     ELSE {e \in ListingEnds : e \div 1000 > 30}) :
         LET secs == SecsLeft(MarketEndIn(mode, endIn), elapsed)
         IN  plan' = [run |-> 1, mode |-> mode, closeoutSeconds |-> cs,
                      elapsed |-> elapsed, secsLeft |-> secs,
                      isCloseout |-> isCloseout(secs, cs)]
    /\ UNCHANGED <<variant, seedEnabled, takeProfitBps, clock, started, cyc, clientState,
                   orders, positions, runsTable, nextOrderId, steps>>

InitCloseout == InitPlan /\ variant = "v6"

NextCloseout == CloseoutStep

SpecCloseout == InitCloseout /\ [][NextCloseout]_vars

---------------------------------------------------------------------------
(* initClient under concurrent callers: the startup cycle, a timer cycle and
   an HTTP handler *)

MaxInitFails == 2

Callers == 1 .. 3

Initing == plan.run = 0 /\ "callers" \in DOMAIN plan

IdleCaller == [pc |-> "idle", waitOn |-> 0, client |-> 0]

InitFrame ==
    UNCHANGED <<variant, seedEnabled, takeProfitBps, clock, started, cyc, clientState,
                orders, positions, runsTable, nextOrderId, steps>>

\* A faulty entry that tests the client only; C35 must tell it from the real
\* one
initClientEntryNoPromise(client, promise) == IF client # 0 THEN "client" ELSE "start"

\* the head of initClient(): if (clobClient) return clobClient;
\* if (clientInitPromise) return clientInitPromise; else a new one is made
initClientEntry(client, promise) ==
    IF client # 0 THEN "client" ELSE IF promise # 0 THEN "join" ELSE "start"

\* the stored promise after the async body has thrown past its first await: pm-proxy-v1 (and the
\* older proxies) reset initPromise in the catch, v5 and v6 have no catch
AfterFailure(v, promise) == IF v = "proxy" THEN 0 ELSE promise

\* a caller reaches its await initClient()
InitCall(k) ==
    /\ Initing
    /\ plan.callers[k].pc = "idle"
    /\ LET e == initClientEntry(plan.client, plan.promise)
       IN  \/ /\ e = "client"
              /\ plan' = [plan EXCEPT !.seen = @ \cup {plan.client},
                                      !.callers[k] =
                                        [pc |-> "got", waitOn |-> 0, client |-> plan.client]]
           \/ /\ e = "join" /\ plan.promise \in plan.rejected
              /\ plan' = [plan EXCEPT !.callers[k] =
                            [pc |-> "failed", waitOn |-> 0, client |-> 0]]
           \/ /\ e = "join" /\ plan.promise \notin plan.rejected
              /\ plan' = [plan EXCEPT !.callers[k] =
                            [pc |-> "waiting", waitOn |-> plan.promise, client |-> 0]]
           \/ /\ e = "start"
              /\ plan' = [plan EXCEPT !.promise = plan.nextPromise,
                                      !.nextPromise = @ + 1,
                                      !.flights = @ \cup {plan.nextPromise},
                                      !.callers[k] = [pc |-> "waiting",
                                                      waitOn |-> plan.nextPromise,
                                                      client |-> 0]]
    /\ InitFrame

\* createOrDeriveApiKey() answers and the authenticated client is built
InitSucceeds ==
    /\ Initing
    /\ \E f \in plan.flights :
       LET c == plan.built + 1
       IN  plan' = [plan EXCEPT
                      !.client = c, !.built = c, !.flights = @ \ {f},
                      !.seen = IF \E k \in Callers : plan.callers[k].waitOn = f
                               THEN @ \cup {c} ELSE @,
                      !.callers = [k \in Callers |->
                                     IF plan.callers[k].waitOn = f
                                     THEN [pc |-> "got", waitOn |-> 0, client |-> c]
                                     ELSE plan.callers[k]]]
    /\ InitFrame

\* the async body throws: getAddress() or createOrDeriveApiKey() fails
InitFails ==
    /\ Initing
    /\ plan.fails < MaxInitFails
    /\ \E f \in plan.flights :
       plan' = [plan EXCEPT
                  !.fails = @ + 1, !.flights = @ \ {f},
                  !.rejected = @ \cup {f},
                  !.promise = AfterFailure(variant, @),
                  !.callers = [k \in Callers |->
                                 IF plan.callers[k].waitOn = f
                                 THEN [pc |-> "failed", waitOn |-> 0, client |-> 0]
                                 ELSE plan.callers[k]]]
    /\ InitFrame

\* the next cycle or request of a caller whose await has settled
InitAgain(k) ==
    /\ Initing
    /\ plan.callers[k].pc \in {"got", "failed"}
    /\ plan' = [plan EXCEPT !.callers[k] = IdleCaller]
    /\ InitFrame

InitInit ==
    /\ variant \in ApiVariants
    /\ seedEnabled = FALSE
    /\ takeProfitBps = TAKE_PROFIT_BPS_DEFAULT
    /\ clock = StartClock
    /\ started = 0
    /\ steps = 0
    /\ cyc = [c \in CycleIds |-> IdleCycle]
    /\ clientState = "none"
    /\ orders = {}
    /\ positions = [t \in Tokens |-> NoPos]
    /\ runsTable = {}
    /\ nextOrderId = 2
    /\ plan = [run |-> 0, client |-> 0, promise |-> 0, nextPromise |-> 1, flights |-> {},
               rejected |-> {}, built |-> 0, fails |-> 0, seen |-> {},
               callers |-> [k \in Callers |-> IdleCaller]]

NextInit ==
    \/ \E k \in Callers : InitCall(k)
    \/ InitSucceeds
    \/ InitFails
    \/ \E k \in Callers : InitAgain(k)

SpecInit == InitInit /\ [][NextInit]_vars

---------------------------------------------------------------------------
(* One ACTIVE row of pm_orders over cycles without end: the market of its
   asset can roll over to the next window, and venue cancels succeed *)

\* the market resolved for the asset: the row's own, or the next window's
LiveMarkets == {"own", "next"}

\* what the cycle finds for the token: no market resolved, no book, a stale
\* snapshot, or a fresh book
LiveFinds == {"noMarket", "noBook", "staleBook", "fresh"}

\* cycles after which a row is older than STALE_MS
LiveStaleAge == STALE_MS \div RUNNER_INTERVAL_MS + 1

Living == plan.run = 0 /\ "row" \in DOMAIN plan

\* the rows the cancel loop of a cycle sees: only with a market resolved and
\* a fresh book does the cycle reach getActiveOrdersForToken, which selects
\* by slug and token id of the market resolved now
LiveSeen(row, market, find) ==
    find = "fresh" /\ row.market = market /\ row.status = "ACTIVE"

\* one runCycle from start to end; the venue cancel succeeds
LiveCycle ==
    /\ Living
    /\ \E market \in (IF plan.market = "next" THEN {"next"} ELSE LiveMarkets),
          find \in LiveFinds, closeout \in BOOLEAN :
         LET row  == plan.row
             aged == [row EXCEPT !.age = Min(@ + 1, LiveStaleAge)]
         IN  plan' = [plan EXCEPT
                        !.market = market, !.find = find, !.closeout = closeout,
                        !.row = IF LiveSeen(row, market, find) /\ aged.age >= LiveStaleAge
                                THEN [aged EXCEPT !.status = "CANCELLED"]
                                ELSE aged]
    /\ UNCHANGED <<variant, seedEnabled, takeProfitBps, clock, started, cyc, clientState,
                   orders, positions, runsTable, nextOrderId, steps>>

LiveInit ==
    /\ variant \in {"v5", "v6"}
    /\ seedEnabled \in BOOLEAN
    /\ variant = "v5" => ~seedEnabled
    /\ takeProfitBps = TAKE_PROFIT_BPS_DEFAULT
    /\ clock = StartClock
    /\ started = 1
    /\ steps = 0
    /\ cyc = [c \in CycleIds |-> IdleCycle]
    /\ clientState = "ready"
    /\ orders = {}
    /\ positions = [t \in Tokens |-> NoPos]
    /\ runsTable = {}
    /\ nextOrderId = 2
    /\ plan = [run |-> 0, market |-> "own", find |-> "fresh", closeout |-> FALSE,
               row |-> [market |-> "own", status |-> "ACTIVE", age |-> 0]]

NextLive == LiveCycle

\* the timer keeps starting cycles
SpecLive == LiveInit /\ [][NextLive]_vars /\ WF_vars(LiveCycle)

---------------------------------------------------------------------------
(* The closeout flag and the placements that follow it: the flag is computed
   once per asset, the placements of its tokens come after the awaits of the
   book fetch, the store reads and the cancels *)

\* secsLeft at the time the flag is computed
LateSecsLeft == {CLOSEOUT_SECONDS - 1, CLOSEOUT_SECONDS, CLOSEOUT_SECONDS + 1,
                 CLOSEOUT_SECONDS + 4, 300}

\* whole seconds between the flag and a placement of the token; a book fetch
\* alone may take BOOK_STALE_MS and still be used
LateElapsed == {0, 2, BOOK_STALE_MS \div 1000}

LateBooks == {DeadBook, ThinBook, RealBook}

LateStep ==
    /\ plan = NoPlan
    /\ \E secs \in LateSecsLeft, elapsed \in LateElapsed, book \in LateBooks,
          pos \in {NoPos, PosRow(10, 400)} :
         LET flag == isCloseout(secs, CLOSEOUT_SECONDS)
             res  == PlanToken(book, pos, 0, 0, flag, pos.shares * pos.avgCost,
                               [i \in RespIdx |-> "id"])
         IN  plan' = [run |-> 1, secsLeft |-> secs, closeout |-> flag,
                      secsAtPlacement |-> secs - elapsed, book |-> book, pos |-> pos,
                      calls |-> CallsOf(res.subs), skips |-> res.skips]
    /\ UNCHANGED <<variant, seedEnabled, takeProfitBps, clock, started, cyc, clientState,
                   orders, positions, runsTable, nextOrderId, steps>>

NextLate == LateStep

SpecLate == InitPlan /\ [][NextLate]_vars

---------------------------------------------------------------------------
(* Properties *)

Terminal == {"FILLED", "CANCELLED", "FAILED"}

\* planner action a placement belongs to, from the tag of its client_order_id
ActionOf(tag) ==
    CASE tag = "CLOSE" -> "CLOSEOUT_EXIT"
      [] tag = "PROFIT" -> "PROFIT_EXIT"
      [] tag \in {"SEED_BID", "SEED_ASK"} -> "SEED"
      [] OTHER -> "MAKER_QUOTE"

Planned == plan # NoPlan

\* C1: at most one run cycle is executing at any instant; a timer tick that
\* arrives while a cycle is in progress starts no second cycle.
C1_SingleCycle == Cardinality({c \in CycleIds : Running(c)}) <= 1

\* C2: in the worker that has MAX_ORDERS_PER_SIDE (v6), for every (token,
\* side) the number of ACTIVE order rows never exceeds it, whichever path
\* placed them.
C2_ActivePerSide ==
    variant = "v6" =>
        \A tok \in Tokens, side \in {"BUY", "SELL"} :
            Cardinality({r \in getActiveOrdersForToken(orders, tok) : r.side = side})
                <= MAX_ORDERS_PER_SIDE

\* C3: every price handed to the venue lies strictly between 0 and 1 and is
\* an exact multiple of the book's tick size.
C3_PriceOnGrid ==
    Planned =>
        \A i \in DOMAIN plan.calls :
            /\ 0 < plan.calls[i].price
            /\ plan.calls[i].price < PriceScale
            /\ plan.calls[i].price % plan.calls[i].tick = 0

\* C4: order status is monotonic: a row that is FILLED, CANCELLED or FAILED
\* is never changed again by any step.
C4_TerminalStays ==
    [][\A r \in orders : r.status \in Terminal => r \in orders']_vars

\* C4 case: the startup row has been cancelled, run 1 left a terminal row on
\* the same token, and run 2 has since made its pass over that token.
C4_Witness ==
    /\ \E r \in orders : r.run = 0 /\ r.status = "CANCELLED"
    /\ \E r \in orders : r.run = 1 /\ r.token = <<"BTC", "YES">> /\ r.status \in Terminal
    /\ cyc[2].pc = "token" /\ cyc[2].ti = 2

\* C5: every cycle that has ended has persisted exactly one run summary,
\* whatever its outcome.
C5_SummaryPerCycle ==
    \A c \in CycleIds :
        cyc[c].pc = "done" => Cardinality({r \in runsTable : r.run = c}) = 1

\* C6: a failure while one token is processed does not end the cycle: a
\* cycle that has ended after such a failure went on to its run summary.
C6_TokenFailureContained ==
    \A c \in CycleIds :
        (cyc[c].pc = "done" /\ cyc[c].threwAt = "token") =>
            \E r \in runsTable : r.run = c

\* C7: runCycle() never rejects: every cycle that has ended has resolved,
\* wherever an error was raised inside it.
C7_NeverRejects ==
    \A c \in CycleIds : cyc[c].pc = "done" => cyc[c].outcome = "resolved"

\* C7 case: a cycle has ended after an error was raised in a token's pass,
\* and another after an error before its first asset.
C7_Witness ==
    /\ cyc[1].pc = "done" /\ cyc[1].threwAt = "token"
    /\ cyc[2].pc = "done" /\ cyc[2].threwAt \in {"init", "assets"}

\* C8: the placements of one token in one cycle all belong to one planner
\* action.
C8_OneAction ==
    Planned =>
        Cardinality({ActionOf(plan.calls[i].tag) : i \in DOMAIN plan.calls}) <= 1

\* C9: with shares > 0 and the market within CLOSEOUT_SECONDS of expiry the
\* pass submits a FOK SELL of the full position at the tick-rounded best bid.
C9_CloseoutExits ==
    (Planned /\ plan.closeout /\ plan.pos.shares > 0) =>
        \E i \in DOMAIN plan.calls :
            /\ plan.calls[i].side = "SELL"
            /\ plan.calls[i].otype = "FOK"
            /\ plan.calls[i].size = plan.pos.shares
            /\ plan.calls[i].price = roundToTick(plan.book.bestBid, plan.book.tickSize)

\* what C10 requires of the order itself
ProfitOrderShape(call) ==
    /\ call.side = "SELL"
    /\ call.otype = "FOK"
    /\ call.size = plan.pos.shares
    /\ call.price = clamp(roundToTick(plan.book.bestBid, plan.book.tickSize), ClampLo, ClampHi)

\* thresholds on the projected profit mid - avgCost, over the planned inputs
\* (twice the profit per share is bestBid + bestAsk - 2 avgCost)
PlanProfit2 == plan.book.bestBid + plan.book.bestAsk - 2 * plan.pos.avgCost
PlanMeetsBps ==
    /\ plan.pos.avgCost > 0
    /\ RoundDiv(PlanProfit2 * 10000, 2 * plan.pos.avgCost) >= takeProfitBps
PlanMeetsPerShare == PlanProfit2 >= 2 * TAKE_PROFIT_USD
PlanMeetsTotal == PlanProfit2 * plan.pos.shares >= 2 * MIN_PROFIT_USD

C11_ExitZeroesPosition ==
    \A r \in orders :
        (r.tag \in {"CLOSE", "PROFIT"} /\ r.status = "FILLED") =>
            positions[r.token].shares = 0

SeedTags == {"SEED_BID", "SEED_ASK"}

\* the placements of the planned pass with a given tag
CallsTagged(tag) == {i \in DOMAIN plan.calls : plan.calls[i].tag = tag}

\* ACTIVE rows the pass counted on a side
PlanActive(side) == IF side = "BUY" THEN plan.nBuys ELSE plan.nSells

\* what C12 requires of each seed order: seeding enabled, book EMPTY or
\* THIN, the side below MAX_ORDERS_PER_SIDE, order type GTC
SeedOrdersGuarded ==
    \A i \in DOMAIN plan.calls :
        plan.calls[i].tag \in SeedTags =>
            /\ seedEnabled
            /\ classifyBook(plan.book) \in {"EMPTY", "THIN"}
            /\ PlanActive(plan.calls[i].side) < MAX_ORDERS_PER_SIDE
            /\ plan.calls[i].otype = "GTC"
            /\ plan.calls[i].side = (IF plan.calls[i].tag = "SEED_BID" THEN "BUY" ELSE "SELL")

SeedBothSidesOpen ==
    /\ \E i \in DOMAIN plan.calls : plan.calls[i].tag \in SeedTags
    /\ plan.nBuys < MAX_ORDERS_PER_SIDE
    /\ plan.nSells < MAX_ORDERS_PER_SIDE

PlanPositionUsd == plan.pos.shares * plan.pos.avgCost

\* what C13 requires of a maker buy whatever the book class: the MAKER gate
\* eligible for BUY, both position caps not reached, the ACTIVE buy count
\* below the open-order cap, and exactly one GTC buy
MakerBuyGuarded(i) ==
    /\ GateReason(plan.book, "BUY", "MAKER") = "OK"
    /\ PlanPositionUsd < MAX_POSITION_USD_PER_TOKEN * PriceScale
    /\ PlanPositionUsd < MAX_TOTAL_POSITION_USD * PriceScale
    /\ plan.nBuys < MAX_OPEN_ORDERS_PER_TOKEN
    /\ plan.calls[i].side = "BUY"
    /\ plan.calls[i].otype = "GTC"
    /\ Cardinality(CallsTagged("BUY")) = 1

Passes == IF plan.run = 0 /\ "passes" \in DOMAIN plan THEN plan.passes ELSE <<>>

\* ids of the ACTIVE rows older than STALE_MS that a pass found
StaleActive(p) == StaleIds(p.rowsIn, PassToken, p.nowMs)

AfterCancel(r, cancelled) ==
    IF cancelled THEN [r EXCEPT !.status = "CANCELLED"] ELSE r

\* the stale-cancel loop of a pass, with the cancel outcomes that leave a stale
\* row CANCELLED: a cancel is issued for exactly the ACTIVE rows older
\* than STALE_MS, each row is CANCELLED or still ACTIVE at the end of the pass
\* according to its outcome, and the planner counts the rows left ACTIVE
CancelLoopAs(p, marking) ==
    /\ p.staleIds = StaleActive(p)
    /\ \A r \in p.rowsIn :
          r.oid \in p.staleIds =>
              /\ AfterCancel(r, p.cres[r.oid] \in marking) \in p.rowsOut
              /\ AfterCancel(r, p.cres[r.oid] \notin marking) \notin p.rowsOut
    /\ p.nBuys = Cardinality({r \in p.rowsIn : r.status = "ACTIVE" /\ r.side = "BUY"
                                 /\ (r.oid \in p.staleIds => p.cres[r.oid] \notin marking)})
    /\ p.nSells = Cardinality({r \in p.rowsIn : r.status = "ACTIVE" /\ r.side = "SELL"
                                 /\ (r.oid \in p.staleIds => p.cres[r.oid] \notin marking)})

VenueCancelOk == {"ok", "updateThrow"}
CancelAndUpdateOk == {"ok"}

\* C15 as stated: before planning, a venue cancel is issued for every ACTIVE
\* record of the token older than STALE_MS, the record is CANCELLED when the
\* venue cancel succeeds and ACTIVE when it fails, and planning goes on
C15_CancelledOnVenueSuccess ==
    \A i \in DOMAIN Passes :
        Passes[i].fetch = "book" => CancelLoopAs(Passes[i], VenueCancelOk)

\* C15 amended: as above, but the record is CANCELLED only when the venue
\* cancel and the status update both succeed; when either fails the record is
\* still ACTIVE at the end of the pass and is counted by the planner
C15_StaleCancel ==
    \A i \in DOMAIN Passes :
        Passes[i].fetch = "book" => CancelLoopAs(Passes[i], CancelAndUpdateOk)

\* a pass cancelled one stale row, failed to cancel another, and went on to
\* submit an order
C15_Witness ==
    \E i \in DOMAIN Passes :
        LET p == Passes[i]
        IN  /\ p.fetch = "book"
            /\ \E a, b \in p.staleIds : p.cres[a] = "ok" /\ p.cres[b] = "cancelThrow"
            /\ p.calls # <<>>

\* the rows a pass inserted
PassInserted(p) == p.rowsOut \ p.rowsCancelled

\* C16: every placement a pass attempts leaves a record: FAILED when the venue
\* returned no order id or the call failed, ACTIVE (FILLED for a fill-or-kill
\* exit) when an id came back; and no placement is attempted twice in a pass
C16_RejectionPersisted ==
    \A n \in DOMAIN Passes :
        LET p == Passes[n]
        IN  \A i \in DOMAIN p.calls :
                LET c == p.calls[i]
                IN  /\ c.resp = "id" =>
                          \E r \in PassInserted(p) :
                              /\ r.tag = c.tag /\ r.side = c.side /\ r.oid # 0
                              /\ r.status \in {"ACTIVE", "FILLED"}
                    /\ c.resp # "id" =>
                          \E r \in PassInserted(p) :
                              r.tag = c.tag /\ r.side = c.side /\ r.status = "FAILED"
                    /\ \A j \in DOMAIN p.calls : j # i => p.calls[j].tag # c.tag

\* C17: a planner pass that submits nothing for its token records a skip entry
\* with a reason code
C17_SkipRecorded ==
    (Planned /\ plan.calls = <<>> /\ ~plan.threw) => plan.skips # <<>>

Gated == plan # NoPlan /\ "gate" \in DOMAIN plan

\* the rules of the gate in the order they are to be reported
GateOrder ==
    <<"DEAD_BOOK", "NO_ASK", "NO_BID", "MIN_BID", "MAX_ASK", "SPREAD", "SUM_DEPTH",
      "FOK_BID_DEPTH", "FOK_ASK_DEPTH", "ASK_DEPTH", "BID_DEPTH">>

\* whether a rule, taken on its own, rejects the call
RuleFails(rule, book, side, mode) ==
    CASE rule = "DEAD_BOOK" -> book.bestBid <= 10 /\ book.bestAsk >= 990
      [] rule = "NO_ASK" -> book.bestAsk = 0 \/ book.bestAsk >= PriceScale
      [] rule = "NO_BID" -> book.bestBid <= 0
      [] rule = "MIN_BID" -> book.bestBid < MIN_BID
      [] rule = "MAX_ASK" -> book.bestAsk > MAX_ASK
      [] rule = "SPREAD" -> spreadBpsMid(book.bestBid, book.bestAsk) > MAX_SPREAD_BPS
      [] rule = "SUM_DEPTH" ->
            book.bidSize * book.bestBid + book.askSize * book.bestAsk
                < MIN_TOP_SUM_DEPTH_USD * PriceScale
      [] rule = "FOK_BID_DEPTH" ->
            mode = "FOK" /\ book.bidSize * book.bestBid < FOK_MIN_DEPTH_USD * PriceScale
      [] rule = "FOK_ASK_DEPTH" ->
            mode = "FOK" /\ book.askSize * book.bestAsk < FOK_MIN_DEPTH_USD * PriceScale
      [] rule = "ASK_DEPTH" ->
            side = "BUY" /\ book.askSize * book.bestAsk < MIN_ASK_DEPTH_USD * PriceScale
      [] rule = "BID_DEPTH" ->
            side = "SELL" /\ book.bidSize * book.bestBid < MIN_BID_DEPTH_USD * PriceScale

FailingRules(book, side, mode) ==
    {i \in DOMAIN GateOrder : RuleFails(GateOrder[i], book, side, mode)}

\* C18: the gate is eligible exactly when no rule fails, and otherwise reports
\* the first failing rule in the order DEAD_BOOK, NO_ASK, NO_BID, MIN_BID,
\* MAX_ASK, SPREAD, SUM_DEPTH, the two fill-or-kill depths (FOK only), the
\* depth of the side quoted against; a book with bid <= 0.01 and ask >= 0.99
\* is DEAD_BOOK for either side and either order type
C18_FirstFailingRule ==
    Gated =>
        LET f == FailingRules(plan.book, plan.side, plan.mode)
        IN  /\ plan.gate.eligible <=> f = {}
            /\ f # {} =>
                 \E i \in f : /\ plan.gate.reason = GateOrder[i]
                              /\ \A j \in f : i <= j
            /\ (plan.book.bestBid <= 10 /\ plan.book.bestAsk >= 990) =>
                 plan.gate.reason = "DEAD_BOOK"

\* a fill-or-kill call on a book whose bid is under MIN_BID, whose spread is
\* over the maximum and whose depth is short was reported as MIN_BID
C18_Witness ==
    /\ Gated
    /\ plan.mode = "FOK"
    /\ plan.gate.reason = "MIN_BID"
    /\ {6, 7, 8} \subseteq FailingRules(plan.book, plan.side, plan.mode)

\* C19: for a fixed book, side and order type, a call the gate rejects under
\* CONFIG is still rejected when any one threshold is tightened (MIN_BID or a
\* depth minimum raised, MAX_ASK or MAX_SPREAD_BPS lowered)
C19_TighteningKeepsIneligible ==
    (Gated /\ ~plan.gate.eligible) => plan.tightReason # "OK"

\* a call rejected for its depth is rejected for its bid once MIN_BID is raised
C19_Witness ==
    /\ Gated
    /\ plan.gate.reason = "SUM_DEPTH"
    /\ plan.tight.MIN_BID > MIN_BID
    /\ plan.tightReason = "MIN_BID"

\* the planner action of a pass and its reason codes
PassAction(p) ==
    IF p.calls = <<>> THEN "SKIP" ELSE ActionOf(p.calls[1].tag)
PassOutcome(p) == <<PassAction(p), p.skips>>

\* two consecutive cycles planned the token on the same book with the same
\* position and the same closeout flag
Replanned ==
    /\ Len(Passes) = 2
    /\ Passes[1].fetch = "book" /\ Passes[2].fetch = "book"
    /\ Passes[1].pos.shares = Passes[2].pos.shares
    /\ Passes[1].pos.avgCost = Passes[2].pos.avgCost
    /\ Passes[1].closeout = Passes[2].closeout

\* the two passes also found the same numbers of ACTIVE buys and sells
SameActiveCounts ==
    /\ Passes[1].nBuys = Passes[2].nBuys
    /\ Passes[1].nSells = Passes[2].nSells

C21_AssetListFailureEndsCycle ==
    [][\A c \in CycleIds :
          /\ (cyc[c].threwAt # "assets" /\ cyc'[c].threwAt = "assets") =>
                /\ cyc'[c].pc = "done"
                /\ cyc'[c].assets = <<>>
                /\ orders' = orders
                /\ positions' = positions
                /\ nextOrderId' = nextOrderId
          /\ cyc[c].threwAt = "assets" => cyc'[c] = cyc[c]]_vars

\* the first cycle ended on a failed asset-list fetch and the second is in
\* its token loop
C21_Witness ==
    /\ cyc[1].pc = "done" /\ cyc[1].threwAt = "assets"
    /\ cyc[2].pc = "token"

\* the step taken is a failed resolution of the current asset
ResolutionFailed ==
    /\ AssetLoop /\ plan.pc = "resolve"
    /\ plan'.markets = plan.markets

\* C22: a step in which the market resolution of one asset fails gives that
\* asset no market, records one skip for it with reason discovery_error or
\* no_active_market, and leaves the cycle in its asset loop: at the next
\* asset when there is one, at the summary otherwise
C22_ResolutionFailureContained ==
    [][ResolutionFailed =>
          LET n == Len(plan.skipped) + 1
          IN  /\ Len(plan'.skipped) = n
              /\ SubSeq(plan'.skipped, 1, n - 1) = plan.skipped
              /\ plan'.skipped[n].asset = plan.assets[plan.ai]
              /\ plan'.skipped[n].reason \in {"discovery_error", "no_active_market"}
              /\ plan'.threwAt = "none"
              /\ IF plan.ai < Len(plan.assets)
                 THEN plan'.pc = "resolve" /\ plan'.ai = plan.ai + 1
                 ELSE plan'.pc = "summary"]_vars

\* the first asset's resolution threw, the second's found no market, and the
\* third asset went through its token loop
C22_Witness ==
    /\ AssetLoop
    /\ Len(plan.assets) = 3
    /\ Len(plan.skipped) = 2
    /\ plan.skipped[1].reason = "discovery_error"
    /\ plan.skipped[2].reason = "no_active_market"
    /\ plan.processed = <<plan.assets[3]>>

\* the seed placements of a plan are a GTC buy at bidPx x bidSize and a GTC
\* sell at askPx x askSize
SeedQuotesAre(bidPx, bidSize, askPx, askSize) ==
    \A i \in DOMAIN plan.calls :
        LET c == plan.calls[i]
        IN  /\ c.tag = "SEED_BID" =>
                 c.side = "BUY" /\ c.otype = "GTC" /\ c.price = bidPx /\ c.size = bidSize
            /\ c.tag = "SEED_ASK" =>
                 c.side = "SELL" /\ c.otype = "GTC" /\ c.price = askPx /\ c.size = askSize

\* the scenario: seeding with fair price 0.50, half-spread 200 bps, tick 0.01,
\* target notional 2 USD and minimum size 1
SeedScenario ==
    /\ Planned /\ variant = "v6" /\ seedEnabled
    /\ plan.book.tickSize = 10
    /\ SEED_FAIR_PRICE = 500 /\ SEED_HALF_SPREAD_BPS = 200
    /\ ORDER_USD_PER_TRADE_V6 = 2 /\ MIN_ORDER_SIZE_V6 = 1

\* C23 as stated: in the scenario SEED places a GTC buy at 0.45 with size 4
\* and a GTC sell at 0.55 with size 3
C23_SeedAt45And55 == SeedScenario => SeedQuotesAre(450, 4, 550, 3)

\* C23 amended: in the scenario SEED places a GTC buy at 0.49 with size 4 and
\* a GTC sell at 0.51 with size 3, each size being floor(2 / price)
C23_SeedAt49And51 == SeedScenario => SeedQuotesAre(490, 4, 510, 3)

\* a token was seeded on both sides in the scenario
C23_Witness ==
    /\ SeedScenario
    /\ CallsTagged("SEED_BID") # {}
    /\ CallsTagged("SEED_ASK") # {}

\* the scenario: the v5 worker outside the closeout window, 10 shares bought
\* at 0.40, best bid 0.55 with depth of at least the fill-or-kill minimum
ProfitScenario ==
    /\ Planned /\ variant = "v5" /\ ~plan.closeout
    /\ plan.pos.shares = 10 /\ plan.pos.avgCost = 400
    /\ plan.book.bestBid = 550
    /\ bidDepthUsd(plan.book) >= FOK_MIN_DEPTH_USD * PriceScale

\* the first placement of the plan is the profit exit of the scenario
ProfitExitOfTen ==
    /\ plan.calls # <<>>
    /\ plan.calls[1].tag = "PROFIT"
    /\ plan.calls[1].side = "SELL" /\ plan.calls[1].otype = "FOK"
    /\ plan.calls[1].size = 10
    /\ plan.calls[1].price = roundToTick(550, plan.book.tickSize)

\* C24 as stated: in the scenario the planner emits PROFIT_EXIT as a FOK SELL
\* of size 10 at roundToTick(0.55, tick), whatever the ask side of the book
C24_ProfitExitAnyAsk == ProfitScenario => ProfitExitOfTen

\* C24 amended: in the scenario the planner emits that PROFIT_EXIT when the
\* ask side lets the fill-or-kill gate pass for SELL
C24_ProfitExitGated ==
    (ProfitScenario /\ GateReason(plan.book, "SELL", "FOK") = "OK") => ProfitExitOfTen

\* the scenario on a book whose ask side passes the gate
C24_Witness ==
    /\ ProfitScenario
    /\ GateReason(plan.book, "SELL", "FOK") = "OK"
    /\ plan.book.bestAsk = 590

Answered == plan # NoPlan /\ "reply" \in DOMAIN plan

\* C25: a control-API request that lacks the exact bearer credential, or that
\* carries the dry-run header, causes no order placement and no cancellation
\* at the venue
C25_NoSideEffectWithoutAuthOrOnDryRun ==
    (Answered /\ (plan.req.auth # "exact" \/ plan.req.dry \in {"1", "true"})) =>
        plan.reply.venue = <<>>

\* what is wrong with the body of a manual place request
Malformed(req) ==
    \/ req.price <= 0 \/ req.price >= PriceScale
    \/ req.size <= 0
    \/ UpperSide(req.side) \notin {"BUY", "SELL"}

\* C26: a manual place request whose price is not strictly between 0 and 1,
\* whose size is not positive, or whose side is not BUY or SELL is rejected
\* with no venue call, and order records and positions stay as they were
C26_MalformedPlaceRejected ==
    [][(plan = NoPlan /\ Answered' /\ plan'.req.endpoint = "place" /\ Malformed(plan'.req)) =>
          /\ plan'.reply.venue = <<>>
          /\ plan'.reply.status # 200
          /\ orders' = orders /\ positions' = positions]_vars

\* C27: every started cycle eventually finishes, at its summary or in its
\* error handler, even if an external call never answers
C27_CycleFinishes == <>(Awaiting /\ plan.pc = "done")

\* C28: while a cycle evaluates a placement for the token on the counts it
\* has read, every stale cancel of its own has completed, and no cancel of an
\* order of the token is in flight, neither another cycle's nor the manual
\* cancel endpoint's
C28_NoCancelInFlightAtEvaluation ==
    Racing =>
        \A c \in RaceIds :
            plan.pass[c].pc = "evaluate" =>
                /\ plan.pass[c].stale = {} /\ plan.pass[c].inflight = 0
                /\ \A d \in RaceIds : plan.pass[d].inflight = 0
                /\ plan.manual.pc # "inflight"

\* the resting sells of a v5 pass: GTC sells of at most the shares held
RestingSells ==
    {plan.subs[i] : i \in {k \in 1 .. Len(plan.subs) :
                              plan.subs[k].side = "SELL" /\ plan.subs[k].otype = "GTC"}}

\* C29 as stated: every resting sell against inventory is submitted at
\* avgCost + TAKE_PROFIT_USD or more, whatever the average cost
C29_SellAtOrAboveFloor ==
    (plan.run = 1 /\ variant = "v5") =>
        \A s \in RestingSells :
            PlaceOrderPrice(s.price) >= plan.pos.avgCost + TAKE_PROFIT_USD

\* C29: every resting sell against inventory is submitted at
\* avgCost + TAKE_PROFIT_USD or more, or at the 0.99 the price is clamped to
\* when that floor lies above it
C29_SellAtFloorOrClamp ==
    (plan.run = 1 /\ variant = "v5") =>
        \A s \in RestingSells :
            /\ s.size <= plan.pos.shares
            /\ PlaceOrderPrice(s.price) >= Min(plan.pos.avgCost + TAKE_PROFIT_USD, ClampHi)
            /\ PlaceOrderPrice(s.price) = s.price

\* a resting sell lifted to the floor above the improved ask
C29_Witness ==
    /\ plan.run = 1 /\ variant = "v5"
    /\ plan.pos.avgCost + TAKE_PROFIT_USD < ClampHi
    /\ \E s \in RestingSells :
         /\ s.price = plan.pos.avgCost + TAKE_PROFIT_USD
         /\ s.price > plan.book.bestAsk

\* the Position row of the token as pass n of plan.passes left it
PositionAfter(n) ==
    IF n < Len(plan.passes) THEN plan.passes[n + 1].pos ELSE positions[PassToken]

\* a seed or maker placement of the pass came back with an order id
MakerOrSeedId(p) ==
    \E i \in DOMAIN p.calls :
        p.calls[i].otype = "GTC" /\ p.calls[i].resp = "id"

\* C30: after a pass in which a SEED or MAKER placement returned an order id
\* for a token without a Position row, the token has a row with shares 0 and
\* avgCost 0; and such a pass leaves an existing row as it was
C30_ZeroRowEnsured ==
    (plan.run = 0 /\ "passes" \in DOMAIN plan) =>
        \A n \in 1 .. Len(plan.passes) :
            LET p == plan.passes[n]
            IN  (p.fetch = "book" /\ MakerOrSeedId(p)) =>
                    IF p.pos.exists THEN PositionAfter(n) = p.pos
                    ELSE PositionAfter(n) = PosRow(0, 0)

\* the second half of C30 alone: an existing Position row is never modified
\* by a pass that places seed or maker orders
C30_ExistingRowKept ==
    (plan.run = 0 /\ "passes" \in DOMAIN plan) =>
        \A n \in 1 .. Len(plan.passes) :
            LET p == plan.passes[n]
            IN  (p.fetch = "book" /\ MakerOrSeedId(p) /\ p.pos.exists) =>
                    PositionAfter(n) = p.pos

\* C31: no two rows of pm_orders share a client_order_id, whichever cycles
\* wrote them
C31_UniqueClientOrderId ==
    \A r1, r2 \in orders : ClientOrderId(r1) = ClientOrderId(r2) => r1 = r2

\* the book a gate call was made on
GateCalled == plan.run = 1 /\ "gate" \in DOMAIN plan

\* C32: classifyBook returns EMPTY exactly for a book with bid <= 0.01 and
\* ask >= 0.99, or bid <= 0, or ask >= 1; THIN exactly for a book that is not
\* EMPTY and whose combined top depth is below MIN_TOP_SUM_DEPTH_USD or one
\* of whose sides has a depth below 1; REAL for every other book
C32_ClassifyBook ==
    GateCalled =>
        LET b     == plan.book
            st    == classifyBook(b)
            bidD  == b.bidSize * b.bestBid
            askD  == b.askSize * b.bestAsk
            empty == \/ (b.bestBid <= 10 /\ b.bestAsk >= 990)
                     \/ b.bestBid <= 0
                     \/ b.bestAsk >= 1000
            thin  == /\ ~empty
                     /\ \/ bidD + askD < MIN_TOP_SUM_DEPTH_USD * 1000
                        \/ bidD < 1000
                        \/ askD < 1000
        IN  /\ st \in {"EMPTY", "THIN", "REAL"}
            /\ (st = "EMPTY") <=> empty
            /\ (st = "THIN") <=> thin
            /\ (st = "REAL") <=> (~empty /\ ~thin)

\* a book with no bids whose sizes alone would make it thin or real
C32_Witness ==
    /\ GateCalled
    /\ plan.book.bestBid = 0 /\ plan.book.bidSize = 100 /\ plan.book.askSize = 100
    /\ plan.book.bestAsk = 590
    /\ classifyBook(plan.book) = "EMPTY"

Scanned == plan.run = 1 /\ "scan" \in DOMAIN plan

\* the listing matches keywords and marker, carries two token ids and ends
\* more than lead ms from now
Qualifies(l, lead) == l.match = "both" /\ l.tokens = "two" /\ l.endIn > lead

\* the scan returned the earliest-ending listing that qualifies for the
\* lead, or none when no listing qualifies
ScanReturnsEarliest(lead) ==
    LET ls == plan.listings
        q  == {i \in DOMAIN ls : Qualifies(ls[i], lead)}
    IN  IF q = {} THEN plan.scan.kind = "null"
        ELSE /\ plan.scan.kind = "market"
             /\ plan.scan.idx \in q
             /\ \A j \in q : ls[plan.scan.idx].endIn <= ls[j].endIn

\* C33 as stated: the scan returns the earliest-ending listing among those
\* that match, carry two token ids and end more than 30 s from now, and none
\* when there is no such listing
C33_ScanEarliestOver30s == Scanned => ScanReturnsEarliest(30000)

\* C33: when no listing that matches and has an end date in the future
\* carries token ids that do not parse, the scan returns the earliest-ending
\* listing among those that match, carry two token ids and have more than 30
\* whole seconds left (31 s or more), and none when there is no such listing;
\* when one does, v6 throws and v5 returns none
C33_ScanEarliestWholeSeconds ==
    Scanned =>
        IF ScanThrows(plan.listings)
        THEN plan.scan.kind = (IF variant = "v5" THEN "null" ELSE "throw")
        ELSE ScanReturnsEarliest(30999)

\* the later of two qualifying listings comes first in the list
C33_Witness ==
    /\ Scanned
    /\ Len(plan.listings) = 2
    /\ Qualifies(plan.listings[1], 30999) /\ Qualifies(plan.listings[2], 30999)
    /\ plan.listings[2].endIn < plan.listings[1].endIn
    /\ plan.scan = [kind |-> "market", idx |-> 2]

\* C34: for a market resolved from configured token ids the closeout flag is
\* false, whatever CLOSEOUT_SECONDS is configured
C34_NoCloseoutForTargetIds ==
    (plan.run = 1 /\ "isCloseout" \in DOMAIN plan /\ plan.mode = "TARGET_IDS") =>
        ~plan.isCloseout

\* C35: whatever the interleaving of the callers of initClient, at most one
\* authenticated client is ever built, every caller that gets a client gets
\* that one, and the client once set stays the same
C35_OneClient ==
    Initing =>
        /\ plan.built <= 1
        /\ Cardinality(plan.flights) <= 1
        /\ plan.seen \subseteq {plan.client} \ {0}
        /\ plan.built = 1 => plan.client = 1
        /\ \A k \in Callers : plan.callers[k].pc = "got" => plan.callers[k].client = plan.client

\* three callers were waiting on one initialisation and all hold its client
C35_Witness ==
    /\ Initing
    /\ plan.built = 1
    /\ \A k \in Callers : plan.callers[k].pc = "got" /\ plan.callers[k].client = 1
    /\ plan.nextPromise = 2

\* C40: after a failed initialisation, with no client built and no
\* initialisation in flight, the next call of initClient starts a new one,
\* so a later cycle or request can succeed
C40_RetryAfterFailure ==
    (Initing /\ plan.fails > 0 /\ plan.client = 0 /\ plan.flights = {}) =>
        initClientEntry(plan.client, plan.promise) = "start"

\* C36: with cycles running without end and venue cancels succeeding, an
\* ACTIVE row eventually reaches a terminal status, also when its market is
\* no longer the one resolved and when the book is stale or missing
C36_ActiveEventuallyTerminal == <>(Living /\ plan.row.status # "ACTIVE")

\* the same under a market that never rolls over and a book that is fresh in
\* every cycle: the row is cancelled once it is older than STALE_MS
C36_CancelledWhenSeen ==
    [][(Living /\ plan.row.status = "ACTIVE" /\ plan'.find = "fresh"
        /\ plan'.market = plan.row.market /\ plan.row.age + 1 >= LiveStaleAge)
       => plan'.row.status = "CANCELLED"]_vars

Flagged == plan.run = 1 /\ "secsAtPlacement" \in DOMAIN plan

BuyCalls == {i \in DOMAIN plan.calls : plan.calls[i].side = "BUY"}

\* C37 as stated: no BUY is placed for a token whose market is within
\* CLOSEOUT_SECONDS of expiry when the order is placed
C37_NoBuyInCloseout ==
    (Flagged /\ plan.secsAtPlacement <= CLOSEOUT_SECONDS) => BuyCalls = {}

\* C37: no BUY is placed for a token whose market was within
\* CLOSEOUT_SECONDS of expiry when the cycle computed secsLeft for the asset
C37_NoBuyWhenFlagged ==
    (Flagged /\ plan.secsLeft <= CLOSEOUT_SECONDS) => BuyCalls = {}

\* a flat token on a real book, skipped for closeout
C37_Witness ==
    /\ Flagged
    /\ plan.secsLeft = CLOSEOUT_SECONDS /\ plan.closeout
    /\ plan.book = RealBook /\ plan.pos = NoPos
    /\ plan.calls = <<>> /\ plan.skips = <<"closeout">>

RECURSIVE SumOfSizes(_)
SumOfSizes(rows) ==
    IF rows = {} THEN 0
    ELSE LET r == CHOOSE x \in rows : TRUE IN r.size + SumOfSizes(rows \ {r})

\* the ACTIVE SELL rows of the token a pass counted after its cancel loop
ActiveSellsAt(p) ==
    {r \in getActiveOrdersForToken(p.rowsCancelled, PassToken) : r.side = "SELL"}

\* C38: the size of every SELL a pass submits for the token, added to the
\* sizes of the token's ACTIVE SELL rows, is at most the shares of the
\* token's Position
C38_SellsCoveredByShares ==
    (plan.run = 0 /\ "passes" \in DOMAIN plan) =>
        \A n \in 1 .. Len(plan.passes) :
            LET p == plan.passes[n]
            IN  p.fetch = "book" =>
                    \A i \in DOMAIN p.calls :
                        p.calls[i].side = "SELL" =>
                            p.calls[i].size + SumOfSizes(ActiveSellsAt(p)) <= p.pos.shares

\* C39: every maker buy is priced strictly below the best ask of the book it
\* was computed from
C39_MakerBuyBelowAsk ==
    (plan.run = 1 /\ "posWrite" \in DOMAIN plan) =>
        \A i \in DOMAIN plan.calls :
            plan.calls[i].tag = "BUY" => plan.calls[i].price < plan.book.bestAsk

=============================================================================
